---- MODULE Spec2Model ----
(***************************************************************************)
(* Process supervision and watchdog thrash guard of the task scheduler:    *)
(* scheduler_core.py (get_pid, is_running, start/stop/restart_scheduler),  *)
(* watchdog.py (restart history, backoff, check_and_restart, reset) and    *)
(* the PID-file lifecycle of scheduler.py.                                 *)
(*                                                                         *)
(* Time is counted in whole minutes.  The PID file holds text (a sequence  *)
(* of decimal digits), the restart-history file holds ISO timestamps       *)
(* (pairs <<hour, minute>>); both are converted on every read and write.   *)
(*                                                                         *)
(* One run of scheduler.py (validate_jobs.validate_config, schedule_job,   *)
(* the startup jobs and the run_pending loop) has its own clock, counted   *)
(* in seconds from the start of the process.  A trigger registered with    *)
(* the schedule package is due every `interval` units from its             *)
(* registration; the alignment to `at` and to the weekday, done inside     *)
(* the package, is kept as attributes of the trigger only.                 *)
(***************************************************************************)
EXTENDS Integers, Sequences, FiniteSets, TLC

\* ---- bounds of the model ------------------------------------------------
MaxPid == 2
MaxTime == 40
ClockStep == 10
MaxLen == 2
MaxJobs == 2
MaxEvery == 2
MaxDom == 2
MaxTicks == 3

\* ---- program constants --------------------------------------------------
MAX_RESTARTS_IN_WINDOW == 5
RESTART_WINDOW_MINUTES == 15
\* "run periodically by Windows Task Scheduler (e.g., every 5 minutes)"
CADENCE_MINUTES == 5
BACKOFF_MINUTES == 30
StartPolls == 10

\* None: an integer that int() yields for no text of at most MaxLen characters
None == 0 - 10^(MaxLen + 1)

Pids == 1..MaxPid

VARIABLES
    now,          \* wall clock, minutes
    spawnLog,     \* observer: the times of the latest spawns by the watchdog
    wd,           \* watchdog invocations that run at the same time: per
                  \*   invocation pc, history (its local copy), pid, ok
    HAS_PSUTIL,   \* scheduler_core: psutil could be imported
    procs,        \* process table: pid -> kind of process
    pidFile,      \* scheduler.pid: [exists, text]
    historyFile,  \* logs/watchdog_restarts.json: [exists, restarts, backoff_until]
    ctl,          \* the supervisor / watchdog operation in progress:
                  \*   pc (where it stands), op (entry point called),
                  \*   polls (PID-file wait loop iterations done),
                  \*   proc (pid of the psutil.Process handle of stop)
    ret,          \* the value an operation returned in this step
    eff,          \* what the operation in progress (or just returned) has done
    pre,          \* the PID file and the live schedulers when a supervisor command was called
    jobs,         \* jobs.yaml: the list of job definitions
    sch,          \* one run of scheduler.py: pc (where __main__ stands), i (jobs
                  \*   given to schedule_job), ticks (loop iterations), startup
                  \*   (startup_jobs), error (what ended the run)
    triggers,     \* the jobs registered with the schedule package
    dispatched,   \* per job: executions started with run_threaded
    clock,        \* seconds since the run began
    startDom,     \* day of the month on which the run began
    finished,     \* the execution whose run_command returned last, as it
                  \*   was when it returned
    execs         \* the threads started with run_threaded, in the order of
                  \*   their start: job, started (clock), pc, shell, kids
                  \*   (processes started by the shell run and hold its pipes), done
                  \*   (how subprocess.run ended), result (of run_command)

schedVars == <<jobs, sch, triggers, dispatched, clock, startDom, execs, finished>>

vars == <<now, spawnLog, wd, HAS_PSUTIL, procs, pidFile, historyFile, ctl, ret, eff, pre,
          jobs, sch, triggers, dispatched, clock, startDom, execs, finished>>

\* ---- text conversions ---------------------------------------------------
RECURSIVE Str(_)
Str(n) == IF n < 10 THEN <<n>> ELSE Append(Str(n \div 10), n % 10)

RECURSIVE ParseDigits(_)
ParseDigits(s) ==
    IF Len(s) = 1 THEN s[1]
    ELSE 10 * ParseDigits(SubSeq(s, 1, Len(s) - 1)) + s[Len(s)]

\* characters of a text: the digits 0..9 stand for themselves
Minus == 10
Space == 11
Letter == 12
Digits == 0..9
Chars == Digits \cup {Minus, Space, Letter}

RECURSIVE lstrip(_)
lstrip(s) == IF s # <<>> /\ Head(s) = Space THEN lstrip(Tail(s)) ELSE s

RECURSIVE rstrip(_)
rstrip(s) ==
    IF s # <<>> /\ s[Len(s)] = Space THEN rstrip(SubSeq(s, 1, Len(s) - 1)) ELSE s

strip(s) == rstrip(lstrip(s))

AllDigits(s) == s # <<>> /\ \A i \in 1..Len(s) : s[i] \in Digits

\* int(t) succeeds: an optional sign, then digits
IsDecimal(t) == IF t # <<>> /\ Head(t) = Minus THEN AllDigits(Tail(t)) ELSE AllDigits(t)

\* faulty variant: text that is no number reads as 0
ParseIntZeroOnError(s) ==
    LET t == strip(s)
    IN  IF ~IsDecimal(t) THEN 0
        ELSE IF Head(t) = Minus THEN 0 - ParseDigits(Tail(t)) ELSE ParseDigits(t)
\* int(text.strip()), None standing for the ValueError both readers catch
ParseInt(s) ==
    LET t == strip(s)
    IN  IF ~IsDecimal(t) THEN None
        ELSE IF Head(t) = Minus THEN 0 - ParseDigits(Tail(t)) ELSE ParseDigits(t)

isoformat(t) == <<t \div 60, t % 60>>
fromisoformat(s) == 60 * s[1] + s[2]

RECURSIVE MapIso(_)
MapIso(ts) == IF ts = <<>> THEN <<>> ELSE <<isoformat(Head(ts))>> \o MapIso(Tail(ts))

RECURSIVE MapFromIso(_)
MapFromIso(ss) ==
    IF ss = <<>> THEN <<>> ELSE <<fromisoformat(Head(ss))>> \o MapFromIso(Tail(ss))

\* ---- files ----------------------------------------------------------------
\* readable: read_text() does not raise; removable: unlink() does not raise
NoPidFile == [exists |-> FALSE, text |-> <<>>, readable |-> TRUE, removable |-> TRUE]
PidFileOf(p) == [exists |-> TRUE, text |-> Str(p), readable |-> TRUE, removable |-> TRUE]
EmptyPidFile == [exists |-> TRUE, text |-> <<>>, readable |-> TRUE, removable |-> TRUE]

\* texts of at most MaxLen characters, and every state of the PID file
Texts == UNION {[1..n -> Chars] : n \in 0..MaxLen}
PidFileStates ==
    {NoPidFile} \cup
    {[exists |-> TRUE, text |-> t, readable |-> r, removable |-> m] :
        t \in Texts, r \in BOOLEAN, m \in BOOLEAN}

\* what a PID file written by something else than scheduler.py may hold
ForeignTexts == {<<Minus, 1>>, <<Letter>>}

JsonNull == <<>>
\* loadable: read_text, json.loads and fromisoformat succeed on the content
\* writable: write_text and unlink succeed on the path
NoHistoryFile ==
    [exists |-> FALSE, restarts |-> <<>>, backoff_until |-> JsonNull,
     loadable |-> TRUE, writable |-> TRUE]

\* ---- process table ----------------------------------------------------------
\* "starting": scheduler.py spawned, PID file not yet written
\* "writing" : scheduler.py has opened (truncated) the PID file
\* "running" : scheduler.py past write_pid_file
\* "other"   : an unrelated process whose command line can be read
\* "denied"  : an unrelated process whose command line cannot be read
SchedulerKinds == {"starting", "writing", "running"}
ProcKinds == {"none", "other", "denied"} \cup SchedulerKinds

AliveSchedulers == {p \in Pids : procs[p] \in SchedulerKinds}
FreePids == {p \in Pids : procs[p] = "none"}

\* ---- watchdog.py: helpers -----------------------------------------------------
\* faulty variant: AccessDenied is taken as not running
WdSchedulersOnly == SchedulerKinds
\* 'scheduler.py' in cmdline: True; except psutil.AccessDenied: True
WdAssumeRunning == {"denied"} \cup SchedulerKinds

\* faulty variant: no process is ever found
is_process_runningNever(pid, table) == FALSE
is_process_running(pid, table) ==
    IF pid \notin DOMAIN table THEN FALSE
    ELSE table[pid] \in WdAssumeRunning

\* except ValueError / except Exception: None
get_scheduler_pid(file) ==
    IF file.exists /\ file.readable THEN ParseInt(file.text) ELSE None

\* unlink inside try / except Exception
cleanup_stale_pid_file(file) == IF file.removable THEN NoPidFile ELSE file

\* faulty variant: the content of the file is used without the try / except
load_restart_historyUnguarded(file) ==
    IF file.exists
    THEN [restarts |-> MapFromIso(file.restarts),
          backoff_until |-> IF file.backoff_until # JsonNull
                            THEN fromisoformat(file.backoff_until) ELSE None]
    ELSE [restarts |-> <<>>, backoff_until |-> None]
\* except Exception: the empty history
load_restart_history(file) ==
    IF file.exists /\ file.loadable
    THEN [restarts |-> MapFromIso(file.restarts),
          backoff_until |-> IF file.backoff_until # JsonNull
                            THEN fromisoformat(file.backoff_until) ELSE None]
    ELSE [restarts |-> <<>>, backoff_until |-> None]

\* the file a successful write_text leaves
save_restart_history(history) ==
    [exists |-> TRUE,
     restarts |-> MapIso(history.restarts),
     backoff_until |-> IF history.backoff_until # None
                       THEN isoformat(history.backoff_until) ELSE JsonNull,
     loadable |-> TRUE, writable |-> TRUE]

\* write_text inside try / except Exception: a failed write leaves the file
Write(file, new) == IF file.writable THEN new ELSE file

\* faulty variant: the new timestamp is put in front
PrependRestart(restarts, t) == <<t>> \o restarts
AppendRestart(restarts, t) == Append(restarts, t)

\* faulty variant: every recorded restart is pruned
PruneAll(dt, cutoff) == FALSE
\* faulty variant: nothing is pruned
KeepAll(dt, cutoff) == TRUE
InWindow(dt, cutoff) == dt > cutoff

\* faulty variant: thrashing only above the threshold
ThrashingAboveThreshold(restarts) == Len(restarts) > MAX_RESTARTS_IN_WINDOW
Thrashing(restarts) == Len(restarts) >= MAX_RESTARTS_IN_WINDOW

\* faulty variant: the threshold is compared with the restarts recorded before
\* this one
record_restartCountsEarlier(history, t) ==
    LET appended == AppendRestart(history.restarts, t)
        cutoff == t - RESTART_WINDOW_MINUTES
        pruned == SelectSeq(appended, LAMBDA dt : InWindow(dt, cutoff))
        h1 == [history EXCEPT !.restarts = pruned]
    IN  IF Len(pruned) - 1 >= MAX_RESTARTS_IN_WINDOW
        THEN LET h2 == [h1 EXCEPT !.backoff_until = t + BACKOFF_MINUTES]
             IN  [history |-> h2, file |-> save_restart_history(h2), proceed |-> FALSE,
                  pruned |-> Len(appended) - Len(pruned)]
        ELSE [history |-> h1, file |-> save_restart_history(h1), proceed |-> TRUE,
              pruned |-> Len(appended) - Len(pruned)]
\* record_restart: [history, file, proceed]
record_restart(history, t) ==
    LET appended == AppendRestart(history.restarts, t)
        cutoff == t - RESTART_WINDOW_MINUTES
        pruned == SelectSeq(appended, LAMBDA dt : InWindow(dt, cutoff))
        h1 == [history EXCEPT !.restarts = pruned]
    IN  IF Thrashing(pruned)
        THEN LET h2 == [h1 EXCEPT !.backoff_until = t + BACKOFF_MINUTES]
             IN  [history |-> h2, file |-> save_restart_history(h2), proceed |-> FALSE,
                  pruned |-> Len(appended) - Len(pruned)]
        ELSE [history |-> h1, file |-> save_restart_history(h1), proceed |-> TRUE,
              pruned |-> Len(appended) - Len(pruned)]

\* faulty variant: comparison reversed
BackoffReversed(until, t) == until < t
BackoffActive(until, t) == t < until

\* backoff period expired: backoff_until = None, restarts = []
\* faulty variant: restarts are kept when the backoff expires
ClearBackoffKeepRestarts(history) == [history EXCEPT !.backoff_until = None]
ClearBackoff(history) == [restarts |-> <<>>, backoff_until |-> None]

\* faulty variant: a backoff that was set never expires
is_in_backoffForever(history, file, t) ==
    [result |-> history.backoff_until # None, history |-> history, file |-> file]
\* is_in_backoff: [result, history, file]; file is what is on disk afterwards
is_in_backoff(history, file, t) ==
    IF history.backoff_until # None
    THEN IF BackoffActive(history.backoff_until, t)
         THEN [result |-> TRUE, history |-> history, file |-> file]
         ELSE LET h1 == ClearBackoff(history)
              IN  [result |-> FALSE, history |-> h1,
                   file |-> Write(file, save_restart_history(h1))]
    ELSE [result |-> FALSE, history |-> history, file |-> file]

\* ---- scheduler_core.py: helpers -------------------------------------------
\* faulty variant: 0 instead of None when there is no PID file
get_pidZeroWhenMissing(file) ==
    IF ~file.exists THEN 0
    ELSE IF file.readable THEN ParseInt(file.text) ELSE None
\* except (ValueError, IOError): pass; return None
get_pid(file) ==
    IF file.exists /\ file.readable THEN ParseInt(file.text) ELSE None

Truthy(pid) == pid # None /\ pid # 0

\* faulty variant: the command line never matches
MatchesNothing(kind) == FALSE
IdentifiesScheduler(kind) == kind \in SchedulerKinds

\* faulty variant: a process that may not be inspected counts as the scheduler
is_runningAssumes(pid, file, table, psutil) ==
    IF ~psutil THEN file.exists
    ELSE IF pid = None THEN FALSE
    ELSE IF pid \notin DOMAIN table THEN FALSE
    ELSE table[pid] \in WdAssumeRunning
is_running(pid, file, table, psutil) ==
    IF ~psutil THEN file.exists
    ELSE IF pid = None THEN FALSE
    ELSE IF pid \notin DOMAIN table THEN FALSE
    ELSE IdentifiesScheduler(table[pid])

\* PID_FILE.unlink() inside try / except: pass
unlink(file) == IF file.removable THEN NoPidFile ELSE file

\* the unlink of this file removes it
Removed(file) == file.exists /\ file.removable

\* psutil.Process(pid) raises ValueError for a negative pid; is_running lets
\* everything but NoSuchProcess and AccessDenied through
is_runningRaises(pid, psutil) == psutil /\ pid # None /\ pid < 0

\* ---- instrumentation ----------------------------------------------------------
\* the watchdog invocations that may run at the same time
Invocations == {"a", "b"}
EmptyHistory == [restarts |-> <<>>, backoff_until |-> None]
NoInvocation == [pc |-> "off", history |-> EmptyHistory, pid |-> None, ok |-> FALSE]
NoInvocations == [i \in Invocations |-> NoInvocation]
Idle == [pc |-> "idle", op |-> "none", polls |-> 0, proc |-> None]
NoRet == [op |-> "none", ok |-> FALSE, msg |-> "", pid |-> None, raised |-> FALSE]
NoEff == [spawned |-> {}, signals |-> <<>>, unlinked |-> FALSE,
          readPid |-> FALSE, probed |-> {}, saved |-> FALSE, recorded |-> FALSE,
          expired |-> FALSE, pruned |-> 0, failures |-> {}]
NoPre == [pidFile |-> NoPidFile, alive |-> {}]
Snapshot == [pidFile |-> pidFile, alive |-> AliveSchedulers]

Return(op, ok, msg, pid) ==
    [op |-> op, ok |-> ok, msg |-> msg, pid |-> pid, raised |-> FALSE]

\* the call ends with an exception that reaches the caller
Raise(op, exc) == [op |-> op, ok |-> FALSE, msg |-> exc, pid |-> None, raised |-> TRUE]

\* a step of the environment: nothing is returned; the record of the last
\* operation is dropped once that operation is over
EnvStep ==
    /\ ret' = NoRet
    /\ eff' = IF ctl.pc = "idle" THEN NoEff ELSE eff
    /\ pre' = IF ctl.pc = "idle" THEN NoPre ELSE pre
    /\ UNCHANGED <<ctl, HAS_PSUTIL>>
    /\ UNCHANGED schedVars

\* ---- the clock and the processes ------------------------------------------------
Tick ==
    /\ ctl.pc = "idle"
    /\ now + ClockStep <= MaxTime
    /\ now' = now + ClockStep
    /\ EnvStep
    /\ UNCHANGED <<spawnLog, wd, procs, pidFile, historyFile>>

\* scheduler.py write_pid_file: open(..., "w") truncates the file
SchedulerOpenPid(p) ==
    /\ procs[p] = "starting"
    /\ procs' = [procs EXCEPT ![p] = "writing"]
    /\ pidFile' = EmptyPidFile
    /\ EnvStep
    /\ UNCHANGED <<now, spawnLog, wd, historyFile>>

\* ... then str(os.getpid()) is written
SchedulerWritePid(p) ==
    /\ procs[p] = "writing"
    /\ procs' = [procs EXCEPT ![p] = "running"]
    /\ pidFile' = PidFileOf(p)
    /\ EnvStep
    /\ UNCHANGED <<now, spawnLog, wd, historyFile>>

\* write_pid_file: the exception is logged and the scheduler goes on
SchedulerWriteFails(p) ==
    /\ procs[p] = "starting"
    /\ procs' = [procs EXCEPT ![p] = "running"]
    /\ EnvStep
    /\ UNCHANGED <<now, spawnLog, wd, pidFile, historyFile>>

\* clean shutdown (KeyboardInterrupt, fatal error): atexit remove_pid_file
SchedulerExit(p) ==
    /\ procs[p] = "running"
    /\ procs' = [procs EXCEPT ![p] = "none"]
    /\ pidFile' = NoPidFile
    /\ EnvStep
    /\ UNCHANGED <<now, spawnLog, wd, historyFile>>

\* termination by a signal: no atexit handler runs
SchedulerKilled(p) ==
    /\ procs[p] \in SchedulerKinds
    /\ procs' = [procs EXCEPT ![p] = "none"]
    /\ EnvStep
    /\ UNCHANGED <<now, spawnLog, wd, pidFile, historyFile>>

\* an unrelated process takes a free pid, or ends
ForeignStart(p, kind) ==
    /\ procs[p] = "none"
    /\ procs' = [procs EXCEPT ![p] = kind]
    /\ EnvStep
    /\ UNCHANGED <<now, spawnLog, wd, pidFile, historyFile>>

ForeignExit(p) ==
    /\ procs[p] \in {"other", "denied"}
    /\ procs' = [procs EXCEPT ![p] = "none"]
    /\ EnvStep
    /\ UNCHANGED <<now, spawnLog, wd, pidFile, historyFile>>

\* ---- faults of the PID file --------------------------------------------------------
\* the PID file is written by something else than scheduler.py
PidFileOverwritten(t) ==
    /\ pidFile.text # t
    /\ pidFile' = [exists |-> TRUE, text |-> t,
                   readable |-> pidFile.readable, removable |-> pidFile.removable]
    /\ EnvStep
    /\ UNCHANGED <<now, spawnLog, wd, procs, historyFile>>

\* the permissions of the PID file change: read_text() raises or works again
PidFileChmod ==
    /\ pidFile.exists
    /\ pidFile' = [pidFile EXCEPT !.readable = ~pidFile.readable]
    /\ EnvStep
    /\ UNCHANGED <<now, spawnLog, wd, procs, historyFile>>

\* the file is held open or its directory is read-only: unlink() raises, or
\* works again
PidFileLock ==
    /\ pidFile.exists
    /\ pidFile' = [pidFile EXCEPT !.removable = ~pidFile.removable]
    /\ EnvStep
    /\ UNCHANGED <<now, spawnLog, wd, procs, historyFile>>

\* ---- faults of the restart history file ---------------------------------------
\* the content of the history file is overwritten with something that is not
\* the JSON save_restart_history writes, or the file can no longer be read
HistoryCorrupted ==
    /\ ctl.pc = "idle"
    /\ historyFile.loadable
    /\ historyFile' = [historyFile EXCEPT !.exists = TRUE, !.loadable = FALSE]
    /\ EnvStep
    /\ UNCHANGED <<now, spawnLog, wd, procs, pidFile>>

\* the history file or its directory becomes read-only, or writable again
HistoryChmod ==
    /\ ctl.pc = "idle"
    /\ historyFile' = [historyFile EXCEPT !.writable = ~historyFile.writable]
    /\ EnvStep
    /\ UNCHANGED <<now, spawnLog, wd, procs, pidFile>>

\* ---- watchdog.py: the failures one check cycle meets ---------------------------
\* load_restart_history: except Exception (logged)
LoadFailure(file) == IF file.exists /\ ~file.loadable THEN {"history"} ELSE {}
\* save_restart_history: except Exception (logged)
SaveFailure(saves, file) == IF saves /\ ~file.writable THEN {"save"} ELSE {}
\* get_scheduler_pid: except Exception (logged)
ReadFailure(file) == IF file.exists /\ ~file.readable THEN {"pid"} ELSE {}
\* is_process_running: except Exception (logged)
ProbeFailure(pid) == IF pid # None /\ pid < 0 THEN {"probe"} ELSE {}
\* cleanup_stale_pid_file: except Exception (logged)
UnlinkFailure(file) == IF file.exists /\ ~file.removable THEN {"unlink"} ELSE {}

\* faulty variant: reset clears the backoff and keeps the recorded restarts
ResetBackoffOnly(file) == [file EXCEPT !.backoff_until = JsonNull]
\* RESTART_HISTORY_FILE.unlink()
ResetHistory(file) == NoHistoryFile

\* ---- watchdog.py ------------------------------------------------------------------
\* check_and_restart up to the Popen of start_scheduler
\* (watchdog.py imports psutil unconditionally: without it nothing below runs)
check_and_restart ==
    /\ ctl.pc = "idle"
    /\ HAS_PSUTIL
    /\ LET h0 == load_restart_history(historyFile)
           b0 == is_in_backoff(h0, historyFile, now)
           pid == get_scheduler_pid(pidFile)
           up == pid # None /\ is_process_running(pid, procs)
           h1 == load_restart_history(b0.file)
           b1 == is_in_backoff(h1, b0.file, now)
           r == record_restart(b1.history, now)
           exp0 == h0.backoff_until # None /\ ~b0.result
           exp1 == h1.backoff_until # None /\ ~b1.result
           e0 == [NoEff EXCEPT !.saved = exp0,
                               !.expired = exp0,
                               !.failures = LoadFailure(historyFile)
                                            \cup SaveFailure(exp0, historyFile)]
           e1 == [e0 EXCEPT !.readPid = TRUE,
                            !.probed = IF pid = None THEN {} ELSE {pid},
                            !.failures = @ \cup ReadFailure(pidFile)
                                           \cup ProbeFailure(pid)]
           e2 == [e1 EXCEPT !.unlinked = Removed(pidFile),
                            !.failures = @ \cup UnlinkFailure(pidFile)
                                           \cup LoadFailure(b0.file)
                                           \cup SaveFailure(exp1, b0.file)]
           e3 == [e2 EXCEPT !.saved = TRUE, !.recorded = TRUE, !.pruned = r.pruned,
                            !.failures = @ \cup SaveFailure(TRUE, b1.file)]
       IN  /\ pre' = NoPre
           /\ UNCHANGED <<now, HAS_PSUTIL>>
           /\ UNCHANGED schedVars
           /\ IF b0.result
              THEN /\ ret' = Return("check", FALSE, "backoff", None)
                   /\ eff' = e0
                   /\ UNCHANGED <<procs, pidFile, historyFile, ctl>>
              ELSE IF up
              THEN /\ ret' = Return("check", TRUE, "running", pid)
                   /\ eff' = e1
                   /\ historyFile' = b0.file
                   /\ UNCHANGED <<procs, pidFile, ctl>>
              ELSE IF b1.result
              THEN /\ ret' = Return("check", FALSE, "backoff", None)
                   /\ eff' = e2
                   /\ pidFile' = cleanup_stale_pid_file(pidFile)
                   /\ historyFile' = b1.file
                   /\ UNCHANGED <<procs, ctl>>
              ELSE IF ~r.proceed
              THEN /\ ret' = Return("check", FALSE, "thrashing", None)
                   /\ eff' = e3
                   /\ pidFile' = cleanup_stale_pid_file(pidFile)
                   /\ historyFile' = Write(b1.file, r.file)
                   /\ UNCHANGED <<procs, ctl>>
              ELSE /\ pidFile' = cleanup_stale_pid_file(pidFile)
                   /\ historyFile' = Write(b1.file, r.file)
                   /\ \E q \in FreePids \cup {None} :
                        IF q = None
                        THEN /\ ret' = Return("check", FALSE, "failed", None)
                             /\ eff' = [e3 EXCEPT !.failures = @ \cup {"spawn"}]
                             /\ UNCHANGED <<procs, ctl>>
                        ELSE /\ ret' = NoRet
                             /\ eff' = [e3 EXCEPT !.spawned = {q}]
                             /\ procs' = [procs EXCEPT ![q] = "starting"]
                             /\ ctl' = [Idle EXCEPT !.pc = "wd_sleep", !.op = "check"]

\* one invocation of python watchdog.py
WatchdogCheck ==
    /\ check_and_restart
    /\ UNCHANGED <<spawnLog, wd>>

\* the observer keeps the times of the latest spawns
Latest(log) ==
    IF Len(log) <= MAX_RESTARTS_IN_WINDOW THEN log
    ELSE SubSeq(log, Len(log) - MAX_RESTARTS_IN_WINDOW + 1, Len(log))

\* one invocation of python watchdog.py, observed: the time of the Popen is
\* noted when there is one
WatchdogCheckObserved ==
    /\ check_and_restart
    /\ spawnLog' = IF ctl'.pc = "wd_sleep"
                   THEN Latest(Append(spawnLog, now))
                   ELSE spawnLog
    /\ UNCHANGED wd

\* faulty variant: False when the PID file has not been created
StartVerifiedStrict(file) == file.exists
\* if PID_FILE.exists(): return True / else: (warning) return True
StartVerified(file) == TRUE

\* start_scheduler after time.sleep(2): True whether or not the PID file exists
WatchdogStarted ==
    /\ ctl.pc = "wd_sleep"
    /\ ret' = Return("check", StartVerified(pidFile), "started", None)
    /\ ctl' = Idle
    /\ UNCHANGED <<now, spawnLog, wd, HAS_PSUTIL, procs, pidFile, historyFile, eff, pre>>
    /\ UNCHANGED schedVars

\* python watchdog.py reset: exit 0 after the unlink, or when there is no file;
\* exit 1 when the unlink raises
WatchdogReset ==
    /\ ctl.pc = "idle"
    /\ HAS_PSUTIL
    /\ IF historyFile.exists /\ ~historyFile.writable
       THEN /\ UNCHANGED historyFile
            /\ ret' = Return("reset", FALSE, "error", None)
       ELSE /\ historyFile' = ResetHistory(historyFile)
            /\ ret' = Return("reset", TRUE,
                             IF historyFile.exists THEN "cleared" ELSE "no history",
                             None)
    /\ eff' = NoEff
    /\ pre' = NoPre
    /\ UNCHANGED <<now, spawnLog, wd, HAS_PSUTIL, procs, pidFile, ctl>>
    /\ UNCHANGED schedVars

\* ---- watchdog.py: invocations that run at the same time ---------------------------
\* nothing locks the PID file or the history file: an invocation is a sequence
\* of steps, one per access to a file or to the process table, and the steps
\* of other processes come in between
Goes(i, pc) == wd' = [wd EXCEPT ![i].pc = pc]
Ends(i, ok) == wd' = [wd EXCEPT ![i].pc = "done", ![i].ok = ok]

\* check_and_restart: load_restart_history, is_in_backoff
WdLoad(i) ==
    /\ HAS_PSUTIL
    /\ wd[i].pc = "off"
    /\ LET b == is_in_backoff(load_restart_history(historyFile), historyFile, now)
       IN  /\ historyFile' = b.file
           /\ IF b.result THEN Ends(i, FALSE) ELSE Goes(i, "read")
    /\ EnvStep
    /\ UNCHANGED <<now, spawnLog, procs, pidFile>>

\* pid = get_scheduler_pid()
WdReadPid(i) ==
    /\ wd[i].pc = "read"
    /\ LET pid == get_scheduler_pid(pidFile)
       IN  wd' = [wd EXCEPT ![i].pid = pid,
                            ![i].pc = IF pid = None THEN "cleanup" ELSE "probe"]
    /\ EnvStep
    /\ UNCHANGED <<now, spawnLog, procs, pidFile, historyFile>>

\* is_process_running(pid)
WdProbe(i) ==
    /\ wd[i].pc = "probe"
    /\ IF is_process_running(wd[i].pid, procs) THEN Ends(i, TRUE) ELSE Goes(i, "cleanup")
    /\ EnvStep
    /\ UNCHANGED <<now, spawnLog, procs, pidFile, historyFile>>

\* cleanup_stale_pid_file()
WdCleanup(i) ==
    /\ wd[i].pc = "cleanup"
    /\ pidFile' = cleanup_stale_pid_file(pidFile)
    /\ Goes(i, "start")
    /\ EnvStep
    /\ UNCHANGED <<now, spawnLog, procs, historyFile>>

\* start_scheduler: history = load_restart_history(), is_in_backoff(history)
WdStartLoad(i) ==
    /\ wd[i].pc = "start"
    /\ LET b == is_in_backoff(load_restart_history(historyFile), historyFile, now)
       IN  /\ historyFile' = b.file
           /\ wd' = [wd EXCEPT ![i].history = b.history,
                                ![i].pc = IF b.result THEN "done" ELSE "record"]
    /\ EnvStep
    /\ UNCHANGED <<now, spawnLog, procs, pidFile>>

\* record_restart(history): append, prune, save what this invocation holds
WdRecord(i) ==
    /\ wd[i].pc = "record"
    /\ LET r == record_restart(wd[i].history, now)
       IN  /\ historyFile' = Write(historyFile, r.file)
           /\ wd' = [wd EXCEPT ![i].history = r.history,
                                ![i].pc = IF r.proceed THEN "popen" ELSE "done"]
    /\ EnvStep
    /\ UNCHANGED <<now, spawnLog, procs, pidFile>>

\* subprocess.Popen: a new process, or an exception and False
WdPopen(i) ==
    /\ wd[i].pc = "popen"
    /\ \E q \in FreePids \cup {None} :
         IF q = None
         THEN /\ Ends(i, FALSE)
              /\ UNCHANGED <<procs, spawnLog>>
         ELSE /\ procs' = [procs EXCEPT ![q] = "starting"]
              /\ spawnLog' = Latest(Append(spawnLog, now))
              /\ Goes(i, "sleep")
    /\ EnvStep
    /\ UNCHANGED <<now, pidFile, historyFile>>

\* after time.sleep(2): True
WdReturn(i) ==
    /\ wd[i].pc = "sleep"
    /\ Ends(i, StartVerified(pidFile))
    /\ EnvStep
    /\ UNCHANGED <<now, spawnLog, procs, pidFile, historyFile>>

WdSteps(i) ==
    \/ WdLoad(i)
    \/ WdReadPid(i)
    \/ WdProbe(i)
    \/ WdCleanup(i)
    \/ WdStartLoad(i)
    \/ WdRecord(i)
    \/ WdPopen(i)
    \/ WdReturn(i)

\* ---- scheduler_core.py: start_scheduler -----------------------------------------
\* up to the Popen; e is what the calling operation has done so far
StartBody(op, e) ==
    LET pid == get_pid(pidFile)
        e1 == [e EXCEPT !.readPid = TRUE,
                        !.probed = IF Truthy(pid) /\ HAS_PSUTIL
                                   THEN e.probed \cup {pid} ELSE e.probed]
        e2 == [e1 EXCEPT !.unlinked = e.unlinked \/ Removed(pidFile)]
    IN  IF Truthy(pid) /\ is_runningRaises(pid, HAS_PSUTIL)
        THEN /\ ret' = Raise(op, "ValueError")
             /\ eff' = e1
             /\ ctl' = Idle
             /\ UNCHANGED <<procs, pidFile>>
        ELSE IF Truthy(pid) /\ is_running(pid, pidFile, procs, HAS_PSUTIL)
        THEN /\ ret' = Return(op, TRUE, "already running", pid)
             /\ eff' = e1
             /\ ctl' = Idle
             /\ UNCHANGED <<procs, pidFile>>
        ELSE /\ pidFile' = IF pidFile.exists THEN unlink(pidFile) ELSE pidFile
             /\ \E q \in FreePids \cup {None} :
                  IF q = None
                  THEN /\ ret' = Return(op, FALSE, "Failed to start", None)
                       /\ eff' = e2
                       /\ ctl' = Idle
                       /\ UNCHANGED procs
                  ELSE /\ ret' = NoRet
                       /\ eff' = [e2 EXCEPT !.spawned = {q}]
                       /\ procs' = [procs EXCEPT ![q] = "starting"]
                       /\ ctl' = [Idle EXCEPT !.pc = "start_poll", !.op = op]

\* faulty variant: a start by the supervisor is recorded like a restart by the
\* watchdog
StartHistoryCounted(file, t) ==
    Write(file, record_restart(load_restart_history(file), t).file)
\* start_scheduler of scheduler_core.py records nothing: the restart history
\* file is known to watchdog.py only
StartHistory(file, t) == file

StartCall ==
    /\ ctl.pc = "idle"
    /\ pre' = Snapshot
    /\ StartBody("start", NoEff)
    /\ historyFile' = StartHistory(historyFile, now)
    /\ UNCHANGED <<now, spawnLog, wd, HAS_PSUTIL>>
    /\ UNCHANGED schedVars

\* one iteration of the wait loop; after the last one (or the break) the result
StartPoll ==
    /\ ctl.pc = "start_poll"
    /\ ctl.polls < StartPolls
    /\ LET n == ctl.polls + 1
           new_pid == get_pid(pidFile)
       IN  IF pidFile.exists \/ n = StartPolls
           THEN /\ ctl' = Idle
                /\ eff' = [eff EXCEPT !.probed = IF Truthy(new_pid) /\ HAS_PSUTIL
                                                 THEN eff.probed \cup {new_pid}
                                                 ELSE eff.probed]
                /\ ret' = IF Truthy(new_pid) /\ is_runningRaises(new_pid, HAS_PSUTIL)
                          THEN Return(ctl.op, FALSE, "Failed to start", None)
                          ELSE IF Truthy(new_pid)
                                  /\ is_running(new_pid, pidFile, procs, HAS_PSUTIL)
                          THEN Return(ctl.op, TRUE, "Scheduler started", new_pid)
                          ELSE Return(ctl.op, FALSE, "Scheduler failed to start", None)
           ELSE /\ ctl' = [ctl EXCEPT !.polls = n]
                /\ ret' = NoRet
                /\ UNCHANGED eff
    /\ UNCHANGED <<now, spawnLog, wd, HAS_PSUTIL, procs, pidFile, historyFile, pre>>
    /\ UNCHANGED schedVars

\* ---- scheduler_core.py: stop_scheduler -------------------------------------------
\* how stop's result reaches the caller: restart goes on to start only after ok
\* faulty variant: restart goes on to start whatever stop returned
StopReturnsThenStart(op, ok, msg, e) ==
    /\ eff' = e
    /\ IF op = "restart"
       THEN /\ ret' = NoRet
            /\ ctl' = [Idle EXCEPT !.pc = "restart_pause", !.op = op]
       ELSE /\ ret' = Return(op, ok, msg, None)
            /\ ctl' = Idle
StopReturns(op, ok, msg, e) ==
    /\ eff' = e
    /\ IF op = "restart" /\ ok
       THEN /\ ret' = NoRet
            /\ ctl' = [Idle EXCEPT !.pc = "restart_pause", !.op = op]
       ELSE /\ ret' = Return(op, ok, msg, None)
            /\ ctl' = Idle

StopBody(op) ==
    LET pid == get_pid(pidFile)
        e1 == [NoEff EXCEPT !.readPid = TRUE]
        e2 == [e1 EXCEPT !.probed = {pid}]
    IN  IF ~HAS_PSUTIL
        THEN /\ StopReturns(op, FALSE, "psutil required", NoEff)
             /\ UNCHANGED <<procs, pidFile>>
        ELSE IF pid = None
        THEN /\ StopReturns(op, TRUE, "not running (no PID file)", e1)
             /\ UNCHANGED <<procs, pidFile>>
        ELSE IF is_runningRaises(pid, HAS_PSUTIL)
        THEN /\ ret' = Raise(op, "ValueError")
             /\ eff' = e2
             /\ ctl' = Idle
             /\ UNCHANGED <<procs, pidFile>>
        ELSE IF ~is_running(pid, pidFile, procs, HAS_PSUTIL)
        THEN /\ StopReturns(op, TRUE, "not running (stale PID)", [e2 EXCEPT !.unlinked = Removed(pidFile)])
             /\ pidFile' = unlink(pidFile)
             /\ UNCHANGED procs
        ELSE /\ ret' = NoRet
             /\ eff' = [e2 EXCEPT !.signals = <<<<"terminate", pid>>>>]
             /\ ctl' = [Idle EXCEPT !.pc = "stop_wait", !.op = op, !.proc = pid]
             /\ UNCHANGED <<procs, pidFile>>

StopCall ==
    /\ ctl.pc = "idle"
    /\ pre' = Snapshot
    /\ StopBody("stop")
    /\ UNCHANGED <<now, spawnLog, wd, HAS_PSUTIL, historyFile>>
    /\ UNCHANGED schedVars

Gone(pid) == procs[pid] \notin SchedulerKinds

\* proc.wait(timeout=10) is over: the process is gone, or TimeoutExpired and kill
StopWait ==
    /\ ctl.pc = "stop_wait"
    /\ IF Gone(ctl.proc)
       THEN /\ StopReturns(ctl.op, TRUE, "Scheduler stopped",
                           [eff EXCEPT !.unlinked = Removed(pidFile)])
            /\ pidFile' = IF pidFile.exists THEN unlink(pidFile) ELSE pidFile
       ELSE /\ eff' = [eff EXCEPT !.signals = Append(eff.signals, <<"kill", ctl.proc>>)]
            /\ ctl' = [ctl EXCEPT !.pc = "stop_kill_wait"]
            /\ ret' = NoRet
            /\ UNCHANGED pidFile
    /\ UNCHANGED <<now, spawnLog, wd, HAS_PSUTIL, procs, historyFile, pre>>
    /\ UNCHANGED schedVars

\* proc.wait(timeout=5) after kill: TimeoutExpired here is caught by except Exception
StopKillWait ==
    /\ ctl.pc = "stop_kill_wait"
    /\ IF Gone(ctl.proc)
       THEN /\ StopReturns(ctl.op, TRUE, "Scheduler stopped",
                           [eff EXCEPT !.unlinked = Removed(pidFile)])
            /\ pidFile' = IF pidFile.exists THEN unlink(pidFile) ELSE pidFile
       ELSE /\ StopReturns(ctl.op, FALSE, "Failed to stop", eff)
            /\ UNCHANGED pidFile
    /\ UNCHANGED <<now, spawnLog, wd, HAS_PSUTIL, procs, historyFile, pre>>
    /\ UNCHANGED schedVars

\* ---- scheduler_core.py: restart_scheduler -----------------------------------------
RestartCall ==
    /\ ctl.pc = "idle"
    /\ pre' = Snapshot
    /\ StopBody("restart")
    /\ UNCHANGED <<now, spawnLog, wd, HAS_PSUTIL, historyFile>>
    /\ UNCHANGED schedVars

\* after time.sleep(1): return start_scheduler()
RestartStart ==
    /\ ctl.pc = "restart_pause"
    /\ StartBody("restart", eff)
    /\ historyFile' = StartHistory(historyFile, now)
    /\ UNCHANGED <<now, spawnLog, wd, HAS_PSUTIL, pre>>
    /\ UNCHANGED schedVars

\* ---- reading the PID file ---------------------------------------------------------------
\* scheduler_core.get_pid()
GetPid ==
    /\ ctl.pc = "idle"
    /\ pre' = Snapshot
    /\ eff' = [NoEff EXCEPT !.readPid = TRUE]
    /\ ret' = Return("get_pid", get_pid(pidFile) # None, "", get_pid(pidFile))
    /\ UNCHANGED <<now, spawnLog, wd, HAS_PSUTIL, procs, pidFile, historyFile, ctl>>
    /\ UNCHANGED schedVars

\* watchdog.get_scheduler_pid()
GetSchedulerPid ==
    /\ ctl.pc = "idle"
    /\ HAS_PSUTIL
    /\ pre' = Snapshot
    /\ eff' = [NoEff EXCEPT !.readPid = TRUE]
    /\ ret' = Return("get_scheduler_pid", get_scheduler_pid(pidFile) # None, "",
                     get_scheduler_pid(pidFile))
    /\ UNCHANGED <<now, spawnLog, wd, HAS_PSUTIL, procs, pidFile, historyFile, ctl>>
    /\ UNCHANGED schedVars

\* ---- the two liveness probes, called with a PID ------------------------------------------
\* the PIDs handed to the probes: of the table, beyond it, and negative
ProbedPids == Pids \cup {0 - 1, MaxPid + 1}

\* watchdog.is_process_running(pid)
IsProcessRunning(pid) ==
    /\ ctl.pc = "idle"
    /\ HAS_PSUTIL
    /\ pre' = Snapshot
    /\ eff' = [NoEff EXCEPT !.probed = {pid}]
    /\ ret' = Return("is_process_running", is_process_running(pid, procs), "", pid)
    /\ UNCHANGED <<now, spawnLog, wd, HAS_PSUTIL, procs, pidFile, historyFile, ctl>>
    /\ UNCHANGED schedVars

\* scheduler_core.is_running(pid)
IsRunning(pid) ==
    /\ ctl.pc = "idle"
    /\ pre' = Snapshot
    /\ eff' = [NoEff EXCEPT !.probed = IF HAS_PSUTIL THEN {pid} ELSE {}]
    /\ ret' = IF is_runningRaises(pid, HAS_PSUTIL)
              THEN [Raise("is_running", "ValueError") EXCEPT !.pid = pid]
              ELSE Return("is_running", is_running(pid, pidFile, procs, HAS_PSUTIL), "", pid)
    /\ UNCHANGED <<now, spawnLog, wd, HAS_PSUTIL, procs, pidFile, historyFile, ctl>>
    /\ UNCHANGED schedVars

\* ---- jobs.yaml ---------------------------------------------------------------------------
\* a job: [enabled, unit, every, at, day, day_of_month]; name and command are
\* always there, the job is known by its place in the list
Absent == "absent"

UNITS == {"seconds", "minutes", "hours", "days", "weeks", "months", "startup"}
WEEKDAYS == {"monday", "tuesday", "wednesday", "thursday", "friday", "saturday", "sunday"}

\* values of `at`: ":30" and "10:30" match the pattern of the schema
AtOffset == ":30"
AtClock == "10:30"
AtWord == "noon"

JobSpecs ==
    [enabled : BOOLEAN,
     unit : UNITS \cup {"fortnights"},
     every : {None} \cup 0..MaxEvery,
     at : {Absent, AtOffset, AtClock, AtWord},
     day : {Absent, "monday", "Monday", "funday"},
     day_of_month : {None} \cup 0..MaxDom]

Fields(job) ==
    {"unit"} \cup (IF job.every # None THEN {"every"} ELSE {})
             \cup (IF job.at # Absent THEN {"at"} ELSE {})
             \cup (IF job.day # Absent THEN {"day"} ELSE {})
             \cup (IF job.day_of_month # None THEN {"day_of_month"} ELSE {})

\* ---- validate_jobs.py ------------------------------------------------------------------
MIN_EVERY == 1
MIN_DAY_OF_MONTH == 1
MAX_DAY_OF_MONTH == 31

\* faulty variant: any string passes as `day`
SchemaDayAny(day) == TRUE
SchemaDay(day) == day \in WEEKDAYS

\* JOB_SCHEMA, the rules of the `schedule` dictionary
SchemaOK(job) ==
    /\ job.unit \in UNITS
    /\ job.every # None => job.every >= MIN_EVERY
    /\ job.at # Absent => job.at \in {AtOffset, AtClock}
    /\ job.day # Absent => SchemaDay(job.day)
    /\ job.day_of_month # None =>
          job.day_of_month \in MIN_DAY_OF_MONTH..MAX_DAY_OF_MONTH

VALID_FIELDS_BY_UNIT ==
    [u \in UNITS |->
        CASE u = "seconds" -> {"every", "unit"}
          [] u \in {"minutes", "hours", "days"} -> {"every", "unit", "at"}
          [] u = "weeks" -> {"every", "unit", "at", "day"}
          [] u = "months" -> {"unit", "at", "day_of_month"}
          [] u = "startup" -> {"unit"}]

\* faulty variant: no field is required
NothingRequired == [u \in UNITS |-> {}]
REQUIRED_FIELDS_BY_UNIT ==
    [u \in UNITS |-> IF u \in {"months", "startup"} THEN {} ELSE {"every"}]

\* validate_schedule_fields: the errors, as <<job, field>>
validate_schedule_fields(js) ==
    {<<n, f>> \in (1..Len(js)) \X {"unit", "every", "at", "day", "day_of_month"} :
        /\ js[n].unit \in UNITS
        /\ \/ f \in Fields(js[n]) /\ f \notin VALID_FIELDS_BY_UNIT[js[n].unit]
           \/ f \in REQUIRED_FIELDS_BY_UNIT[js[n].unit] /\ f \notin Fields(js[n])}

\* validate_config(strict=True): TRUE when it returns the data, FALSE when it
\* raises ValueError
validate_config(js) ==
    /\ \A n \in 1..Len(js) : SchemaOK(js[n])
    /\ validate_schedule_fields(js) = {}

\* ---- scheduler.py: schedule_job ----------------------------------------------------------
SECOND == 1
MINUTE == 60
HOUR == 3600
DAY == 86400
WEEK == 604800

\* length of one unit of a registered trigger
Period(unit) ==
    CASE unit = "seconds" -> SECOND
      [] unit = "minutes" -> MINUTE
      [] unit = "hours" -> HOUR
      [] unit = "days" -> DAY
      [] unit = "weeks" -> WEEK

\* day.lower()
lower(day) == IF day = "Monday" THEN "monday" ELSE day

\* sched.at(at) of the schedule package raises for a unit that takes no time
\* and for a time that is not in the format of the unit
AtAccepted(unit, start_day, at) ==
    /\ unit \in {"days", "hours", "minutes"} \/ start_day # Absent
    /\ (unit = "days" \/ start_day # Absent) => at = AtClock
    /\ unit = "hours" => at \in {AtOffset, AtClock}
    /\ unit = "minutes" => at = AtOffset

NoTrigger == [interval |-> 0, unit |-> "none", at |-> Absent, start_day |-> Absent,
              gate |-> None]

Registered(interval, unit, at, start_day, gate) ==
    [result |-> "None",
     trigger |-> [interval |-> interval, unit |-> unit, at |-> at,
                  start_day |-> start_day, gate |-> gate]]

Returned(result) == [result |-> result, trigger |-> NoTrigger]

\* faulty variant: the enabled flag is not looked at
EnabledAlways(job) == TRUE
Enabled(job) == job.enabled

\* if not day_of_month: day_of_month = 1
TargetDay(day_of_month) ==
    IF day_of_month = None \/ day_of_month = 0 THEN 1 ELSE day_of_month

\* schedule_job(job): result "disabled", "startup", "None" (a trigger is
\* registered) or "raise" (the exception is logged and raised again)
schedule_job(job) ==
    LET every_val == IF job.every = None THEN 1 ELSE job.every
    IN  IF ~Enabled(job) THEN Returned("disabled")
        ELSE IF job.unit = "startup" THEN Returned("startup")
        ELSE IF job.unit = "months"
        THEN IF job.at # Absent /\ ~AtAccepted("days", Absent, job.at)
             THEN Returned("raise")
             ELSE Registered(1, "days", job.at, Absent, TargetDay(job.day_of_month))
        ELSE IF job.unit \notin UNITS
        THEN Returned("raise")
        ELSE IF job.unit = "weeks" /\ job.day # Absent
        THEN IF lower(job.day) \in WEEKDAYS
             THEN \* the weekday property of the package raises unless every = 1
                  IF every_val # 1 THEN Returned("raise")
                  ELSE IF job.at # Absent /\ ~AtAccepted("weeks", lower(job.day), job.at)
                  THEN Returned("raise")
                  ELSE Registered(every_val, "weeks", job.at, lower(job.day), None)
             ELSE \* warning: scheduling without day constraint
                  IF job.at # Absent /\ ~AtAccepted("weeks", Absent, job.at)
                  THEN Returned("raise")
                  ELSE Registered(every_val, "weeks", job.at, Absent, None)
        ELSE IF job.at # Absent
        THEN IF ~AtAccepted(job.unit, Absent, job.at)
             THEN Returned("raise")
             ELSE Registered(every_val, job.unit, job.at, Absent, None)
        ELSE Registered(every_val, job.unit, Absent, Absent, None)

\* ---- scheduler_core.py: run_command ------------------------------------------------------
JOB_TIMEOUT == 300

\* what the shell of a command can end with: <<exit code, text on stderr>>;
\* 127 is the shell's exit code for a command it cannot find
ShellExitsWith == {<<0, "">>, <<1, "failed">>, <<127, "not found">>}

\* why subprocess.run may start no shell: the working directory is missing,
\* or any other error of the operating system
SpawnErrors == {"FileNotFoundError", "OSError"}

\* how the call of subprocess.run ended
NotDone == [what |-> "running", code |-> None, stderr |-> ""]
Exited(code, stderr) == [what |-> "exit", code |-> code, stderr |-> stderr]
TimedOut == [what |-> "timeout", code |-> None, stderr |-> ""]
SpawnFailed(exc) == [what |-> exc, code |-> None, stderr |-> ""]

\* what the command has written to its standard output when subprocess.run
\* ends: the commands of the model print a line before they exit or are timed
\* out; nothing is printed when no shell was started
Printed(done) == IF done.what \in {"exit", "timeout"} THEN "out" ELSE ""

\* faulty variant: 'error' starts as the empty string
NoResultBlankError ==
    [success |-> FALSE, stdout |-> "", error |-> "", code |-> None, stderr |-> "",
     raised |-> FALSE]
\* result = {'success': False, 'stdout': '', 'stderr': '', 'error': None}
NoResult ==
    [success |-> FALSE, stdout |-> "", error |-> "None", code |-> None, stderr |-> "",
     raised |-> FALSE]

\* subprocess.run(..., check=True, timeout=timeout): returns, or the exception
SubprocessRun(done) ==
    CASE done.what = "exit" -> IF done.code = 0 THEN "returned" ELSE "CalledProcessError"
      [] done.what = "timeout" -> "TimeoutExpired"
      [] OTHER -> done.what

\* faulty variant: no `except Exception` at the end
run_commandNoCatchAll(done) ==
    LET r == SubprocessRun(done)
    IN  CASE r = "returned" ->
                [NoResult EXCEPT !.success = TRUE, !.stdout = Printed(done),
                                 !.stderr = done.stderr]
          [] r = "TimeoutExpired" -> [NoResult EXCEPT !.error = "Timed out"]
          [] r = "CalledProcessError" ->
                [NoResult EXCEPT !.error = "Exit code", !.code = done.code,
                                 !.stderr = done.stderr]
          [] r = "FileNotFoundError" -> [NoResult EXCEPT !.error = "Script not found"]
          [] OTHER -> [NoResult EXCEPT !.error = r, !.raised = TRUE]
\* run_command: the result for each way subprocess.run can end
run_command(done) ==
    LET r == SubprocessRun(done)
    IN  CASE r = "returned" ->
                [NoResult EXCEPT !.success = TRUE, !.stdout = Printed(done),
                                 !.stderr = done.stderr]
          [] r = "TimeoutExpired" -> [NoResult EXCEPT !.error = "Timed out"]
          [] r = "CalledProcessError" ->
                [NoResult EXCEPT !.error = "Exit code", !.code = done.code,
                                 !.stderr = done.stderr]
          [] r = "FileNotFoundError" -> [NoResult EXCEPT !.error = "Script not found"]
          [] OTHER -> [NoResult EXCEPT !.error = "str(e)"]

\* ---- scheduler.py: run_threaded -------------------------------------------------------------
\* a thread that is about to call run_command for job n
NewExec(n, t) ==
    [job |-> n, started |-> t, pc |-> "spawn", shell |-> "none", kids |-> FALSE,
     done |-> NotDone, result |-> NoResult]

\* no execution has returned yet
NoExec == [NewExec(0, 0) EXCEPT !.pc = "none"]

\* faulty variant: no second execution of a job while one is running
run_threadedOnce(es, n, t) ==
    IF \E k \in DOMAIN es : es[k].job = n /\ es[k].pc # "done" THEN es
    ELSE Append(es, NewExec(n, t))
\* threading.Thread(target=job_func, args=args, daemon=True).start()
run_threaded(es, n, t) == Append(es, NewExec(n, t))

\* run_threaded for each of the jobs ns, in their order
RECURSIVE StartThreads(_, _, _)
StartThreads(es, ns, t) ==
    IF ns = <<>> THEN es
    ELSE StartThreads(run_threaded(es, Head(ns), t), Tail(ns), t)

\* faulty variant: the caller joins the thread
WaitsUntilDone(ex) == ex.pc # "done"
\* run_threaded returns once the thread is started: nobody joins it
Waits(ex) == FALSE

\* ---- scheduler.py: __main__ --------------------------------------------------------------
SchedPid == 1
DaysInMonth == 31

SchOff == [pc |-> "off", i |-> 0, ticks |-> 0, startup |-> <<>>, error |-> "none"]
SchStart == [SchOff EXCEPT !.pc = "start"]

\* datetime.now().day at the time t of the run
DayOfMonth(t) == ((startDom - 1 + t \div DAY) % DaysInMonth) + 1

\* faulty variant: the atexit handler leaves the file
remove_pid_fileSkipped(file) == file
\* remove_pid_file: if PID_FILE.exists(): PID_FILE.unlink(), inside try / except
remove_pid_file(file) == IF file.exists THEN unlink(file) ELSE file

\* write_pid_file()
MainWritePid ==
    /\ sch.pc = "start"
    /\ pidFile' = PidFileOf(SchedPid)
    /\ sch' = [sch EXCEPT !.pc = "load"]
    /\ UNCHANGED <<jobs, triggers, dispatched, clock, startDom, execs, finished>>
    /\ UNCHANGED <<now, spawnLog, wd, HAS_PSUTIL, procs, historyFile, ctl, ret, eff, pre>>

\* jobs = load_jobs(CONFIG_FILE): validate_config raising is a fatal error
MainLoadJobs ==
    /\ sch.pc = "load"
    /\ sch' = IF validate_config(jobs)
              THEN [sch EXCEPT !.pc = IF jobs = <<>> THEN "startup" ELSE "compile"]
              ELSE [sch EXCEPT !.pc = "fatal", !.error = "ValueError"]
    /\ UNCHANGED <<jobs, triggers, dispatched, clock, startDom, execs, finished>>
    /\ UNCHANGED <<now, spawnLog, wd, HAS_PSUTIL, procs, pidFile, historyFile, ctl, ret, eff, pre>>

\* one iteration of: for job in jobs: result = schedule_job(job) ...
MainScheduleJob ==
    /\ sch.pc = "compile"
    /\ LET n == sch.i + 1
           r == schedule_job(jobs[n])
           next_pc == IF n = Len(jobs) THEN "startup" ELSE "compile"
       IN  CASE r.result = "raise" ->
                  /\ sch' = [sch EXCEPT !.pc = "fatal", !.i = n, !.error = "schedule_job"]
                  /\ UNCHANGED triggers
             [] r.result = "startup" ->
                  /\ sch' = [sch EXCEPT !.pc = next_pc, !.i = n,
                                        !.startup = Append(sch.startup, n)]
                  /\ UNCHANGED triggers
             [] r.result = "disabled" ->
                  /\ sch' = [sch EXCEPT !.pc = next_pc, !.i = n]
                  /\ UNCHANGED triggers
             [] r.result = "None" ->
                  /\ sch' = [sch EXCEPT !.pc = next_pc, !.i = n]
                  /\ triggers' = Append(triggers,
                        [job |-> n, interval |-> r.trigger.interval,
                         unit |-> r.trigger.unit, at |-> r.trigger.at,
                         start_day |-> r.trigger.start_day, gate |-> r.trigger.gate,
                         next_run |-> clock + r.trigger.interval * Period(r.trigger.unit)])
    /\ UNCHANGED <<jobs, dispatched, clock, startDom, execs, finished>>
    /\ UNCHANGED <<now, spawnLog, wd, HAS_PSUTIL, procs, pidFile, historyFile, ctl, ret, eff, pre>>

\* for job in startup_jobs: run_threaded(run_command_logged, ...)
MainRunStartup ==
    /\ sch.pc = "startup"
    /\ dispatched' = [n \in DOMAIN dispatched |->
                         dispatched[n] + Cardinality({k \in DOMAIN sch.startup :
                                                          sch.startup[k] = n})]
    /\ execs' = StartThreads(execs, sch.startup, clock)
    /\ sch' = [sch EXCEPT !.pc = "loop"]
    /\ UNCHANGED <<jobs, triggers, clock, startDom, finished>>
    /\ UNCHANGED <<now, spawnLog, wd, HAS_PSUTIL, procs, pidFile, historyFile, ctl, ret, eff, pre>>

\* the trigger is due at time t
Due(tr, t) == tr.next_run <= t

\* faulty variant: the day of the month is not looked at
GateOpen(tr, t) == TRUE
\* run_monthly_job: today == target_day (no gate for the other jobs)
GatePasses(tr, t) == tr.gate = None \/ DayOfMonth(t) = tr.gate

\* the instant at which the next trigger falls due
NextDue ==
    CHOOSE t \in {triggers[k].next_run : k \in DOMAIN triggers} :
        \A k \in DOMAIN triggers : t <= triggers[k].next_run

\* the instant at which the timeout of a running command expires first
Expiries == {execs[k].started + JOB_TIMEOUT : k \in {j \in DOMAIN execs : execs[j].pc = "running"}}
NextExpiry == CHOOSE t \in Expiries : \A u \in Expiries : t <= u

\* the loop sleeps one second, or second after second until a trigger is due
\* or, with no trigger due before, until the timeout of a command expires
TickSteps ==
    {SECOND}
    \cup (IF triggers # <<>> /\ NextDue - clock > SECOND THEN {NextDue - clock} ELSE {})
    \cup (IF Expiries # {} /\ NextExpiry - clock > SECOND
               /\ (triggers # <<>> => NextExpiry <= NextDue)
           THEN {NextExpiry - clock} ELSE {})

\* the jobs whose trigger starts a thread at time t, in the order of the triggers
FiredJobs(t) ==
    LET due == SelectSeq(triggers, LAMBDA tr : Due(tr, t) /\ GatePasses(tr, t))
    IN  [k \in DOMAIN due |-> due[k].job]

\* time.sleep(1) as often as nothing is due, then schedule.run_pending():
\* every due trigger runs once and is due again one interval later
MainTick(dt) ==
    /\ sch.pc = "loop"
    /\ sch.ticks < MaxTicks
    /\ \A k \in DOMAIN execs : ~Waits(execs[k])
    /\ execs' = StartThreads(execs, FiredJobs(clock + dt), clock + dt)
    /\ clock' = clock + dt
    /\ sch' = [sch EXCEPT !.ticks = sch.ticks + 1]
    /\ triggers' = [k \in DOMAIN triggers |->
                       IF Due(triggers[k], clock')
                       THEN [triggers[k] EXCEPT !.next_run =
                               clock' + triggers[k].interval * Period(triggers[k].unit)]
                       ELSE triggers[k]]
    /\ dispatched' = [n \in DOMAIN dispatched |->
                         dispatched[n] + Cardinality({k \in DOMAIN triggers :
                             /\ triggers[k].job = n
                             /\ Due(triggers[k], clock')
                             /\ GatePasses(triggers[k], clock')})]
    /\ UNCHANGED <<jobs, startDom, finished>>
    /\ UNCHANGED <<now, spawnLog, wd, HAS_PSUTIL, procs, pidFile, historyFile, ctl, ret, eff, pre>>

\* except KeyboardInterrupt: "Scheduler stopped by user"
MainInterrupt ==
    /\ sch.pc \in {"load", "compile", "startup", "loop"}
    /\ sch' = [sch EXCEPT !.pc = "stopped", !.error = "KeyboardInterrupt"]
    /\ UNCHANGED <<jobs, triggers, dispatched, clock, startDom, execs, finished>>
    /\ UNCHANGED <<now, spawnLog, wd, HAS_PSUTIL, procs, pidFile, historyFile, ctl, ret, eff, pre>>

\* the interpreter exits (after the fatal error was raised again, or after
\* the interrupt): atexit runs remove_pid_file; the daemon threads end with
\* the process
MainAtExit ==
    /\ sch.pc \in {"fatal", "stopped"}
    /\ sch' = [sch EXCEPT !.pc = "exited"]
    /\ pidFile' = remove_pid_file(pidFile)
    /\ execs' = <<>>
    /\ UNCHANGED <<jobs, triggers, dispatched, clock, startDom, finished>>
    /\ UNCHANGED <<now, spawnLog, wd, HAS_PSUTIL, procs, historyFile, ctl, ret, eff, pre>>

\* the process is terminated from outside (proc.terminate() on Windows,
\* SIGKILL, or SIGTERM, for which scheduler.py installs no handler): no except
\* clause and no atexit handler runs
MainKilled ==
    /\ sch.pc \in {"start", "load", "compile", "startup", "loop", "fatal", "stopped"}
    /\ sch' = [sch EXCEPT !.pc = "killed"]
    /\ execs' = <<>>
    /\ UNCHANGED <<jobs, triggers, dispatched, clock, startDom, finished>>
    /\ UNCHANGED <<now, spawnLog, wd, HAS_PSUTIL, procs, pidFile, historyFile, ctl, ret, eff, pre>>

\* ---- the executions: run_command_logged in its thread ---------------------------------------
\* the scheduler process is alive, and so are its threads
ProcessAlive == sch.pc \in {"load", "compile", "startup", "loop", "fatal", "stopped"}

\* communicate(timeout) has not timed out / has timed out at time t
InTime(ex, t) == t - ex.started <= JOB_TIMEOUT
Expired(ex, t) == t - ex.started >= JOB_TIMEOUT

\* the threads without thread k
Without(es, k) == [j \in 1..(Len(es) - 1) |-> IF j < k THEN es[j] ELSE es[j + 1]]

\* a step of thread k, or of the processes of its command
ExecStep(k) ==
    /\ ProcessAlive
    /\ k \in DOMAIN execs
    /\ UNCHANGED <<jobs, sch, triggers, dispatched, clock, startDom>>
    /\ UNCHANGED <<now, spawnLog, wd, HAS_PSUTIL, procs, pidFile, historyFile, ctl, ret, eff, pre>>

\* subprocess.run ended: run_command builds the result from it and returns;
\* run_command_logged logs the result and the thread ends
Finish(k, ex, done) ==
    /\ finished' = [ex EXCEPT !.pc = "done", !.done = done, !.result = run_command(done)]
    /\ execs' = Without(execs, k)

\* subprocess.run starts the shell (Popen), or Popen raises
ExecSpawn(k, how) ==
    /\ ExecStep(k)
    /\ execs[k].pc = "spawn"
    /\ IF how = "ok"
       THEN /\ execs' = [execs EXCEPT ![k].pc = "running", ![k].shell = "alive"]
            /\ UNCHANGED finished
       ELSE Finish(k, execs[k], SpawnFailed(how))

\* the shell starts its first process, which inherits its stdout and stderr
ShellForks(k) ==
    /\ ExecStep(k)
    /\ execs[k].pc = "running"
    /\ execs[k].shell = "alive"
    /\ ~execs[k].kids
    /\ InTime(execs[k], clock)
    /\ execs' = [execs EXCEPT ![k].kids = TRUE]
    /\ UNCHANGED finished

\* the shell exits before the timeout; communicate() returns once the pipes
\* are closed, that is once no child of the shell holds them any more
ShellExits(k, ex) ==
    /\ ExecStep(k)
    /\ execs[k].pc = "running"
    /\ execs[k].shell = "alive"
    /\ InTime(execs[k], clock)
    /\ IF ~execs[k].kids
       THEN Finish(k, [execs[k] EXCEPT !.shell = "exited"], Exited(ex[1], ex[2]))
       ELSE /\ execs' = [execs EXCEPT ![k].shell = "exited",
                                      ![k].done = Exited(ex[1], ex[2])]
            /\ UNCHANGED finished

\* the last of the processes the shell started exits while subprocess.run
\* is still in the call
KidsExit(k) ==
    /\ ExecStep(k)
    /\ execs[k].kids
    /\ execs[k].pc = "running" => InTime(execs[k], clock)
    /\ IF execs[k].pc = "running" /\ execs[k].shell = "exited"
       THEN Finish(k, [execs[k] EXCEPT !.kids = FALSE], execs[k].done)
       ELSE /\ execs' = [execs EXCEPT ![k].kids = FALSE]
            /\ UNCHANGED finished

\* process.kill() of subprocess.run: the shell, if it still runs, is killed;
\* the processes the shell started are not
Kill(ex) == [ex EXCEPT !.shell = IF @ = "alive" THEN "killed" ELSE @]

\* the timeout expires: subprocess.run kills the process it started
ExecTimeout(k) ==
    /\ ExecStep(k)
    /\ execs[k].pc = "running"
    /\ Expired(execs[k], clock)
    /\ execs' = [execs EXCEPT ![k] = [Kill(execs[k]) EXCEPT !.pc = "killed"]]
    /\ UNCHANGED finished

\* ... waits for it (POSIX: for the shell; Windows: until the pipes are
\* closed as well) and raises TimeoutExpired
ExecTimeoutReturns(k) ==
    /\ ExecStep(k)
    /\ execs[k].pc = "killed"
    /\ Finish(k, execs[k], TimedOut)

\* ---- specification --------------------------------------------------------------------
\* no run of scheduler.py is followed
SchedulerOff ==
    /\ jobs = <<>>
    /\ sch = SchOff
    /\ triggers = <<>>
    /\ dispatched = <<>>
    /\ clock = 0
    /\ startDom = 1
    /\ execs = <<>>
    /\ finished = NoExec

Init ==
    /\ now = 0
    /\ spawnLog = <<>>
    /\ wd = NoInvocations
    /\ HAS_PSUTIL \in BOOLEAN
    /\ procs = [p \in Pids |-> "none"]
    /\ pidFile = NoPidFile
    /\ historyFile = NoHistoryFile
    /\ ctl = Idle
    /\ ret = NoRet
    /\ eff = NoEff
    /\ pre = NoPre
    /\ SchedulerOff

Supervisor ==
    \/ StartCall
    \/ StartPoll
    \/ StopCall
    \/ StopWait
    \/ StopKillWait
    \/ RestartCall
    \/ RestartStart

Watchdog ==
    \/ WatchdogCheck
    \/ WatchdogStarted
    \/ WatchdogReset

Processes ==
    \/ \E p \in Pids : SchedulerOpenPid(p)
    \/ \E p \in Pids : SchedulerWritePid(p)
    \/ \E p \in Pids : SchedulerWriteFails(p)
    \/ \E p \in Pids : SchedulerExit(p)
    \/ \E p \in Pids : SchedulerKilled(p)
    \/ \E p \in Pids : \E kind \in {"other", "denied"} : ForeignStart(p, kind)
    \/ \E p \in Pids : ForeignExit(p)

Next == Tick \/ Processes \/ Supervisor \/ Watchdog

\* the whole system
Spec == Init /\ [][Next]_vars

\* the watchdog, invoked one check at a time, with the processes and the clock
NextWatchdog == Tick \/ Processes \/ Watchdog
SpecWatchdog == Init /\ [][NextWatchdog]_vars

\* the supervisor commands of the CLI / GUI, one at a time, with the processes
NextSupervisor == Processes \/ Supervisor
SpecSupervisor == Init /\ [][NextSupervisor]_vars

\* the supervisor commands with a PID file that others write, lock and protect
PidFileFaults ==
    \/ \E t \in ForeignTexts : PidFileOverwritten(t)
    \/ PidFileChmod
    \/ PidFileLock

NextSupervisorFaults == Processes \/ Supervisor \/ PidFileFaults
SpecSupervisorFaults == Init /\ [][NextSupervisorFaults]_vars

\* the watchdog with a PID file and a history file that fail to be read,
\* written or removed
HistoryFaults ==
    \/ HistoryCorrupted
    \/ HistoryChmod

\* of the processes, the scheduler that writes its PID file and is killed
SchedulerLife ==
    \/ \E p \in Pids : SchedulerOpenPid(p)
    \/ \E p \in Pids : SchedulerWritePid(p)
    \/ \E p \in Pids : SchedulerKilled(p)

NextWatchdogFaults ==
    \/ SchedulerLife
    \/ Watchdog
    \/ \E t \in ForeignTexts : PidFileOverwritten(t)
    \/ PidFileChmod
    \/ HistoryFaults
SpecWatchdogFaults == Init /\ [][NextWatchdogFaults]_vars

\* the watchdog invoked again and again (Windows Task Scheduler, every few
\* minutes) while the clock advances
NextGuard == Tick \/ Watchdog
SpecGuard ==
    /\ Init
    /\ [][NextGuard]_vars
    /\ WF_vars(Tick)
    /\ WF_vars(WatchdogCheck)
    /\ WF_vars(WatchdogStarted)

\* the watchdog and the supervisor commands on the same installation, one
\* operation at a time
NextOperators == SchedulerLife \/ Watchdog \/ Supervisor
SpecOperators == Init /\ [][NextOperators]_vars

\* the watchdog invoked one invocation at a time, never reset, with a
\* scheduler that is killed again and again, and an observer of the spawns
NextRate ==
    \/ Tick
    \/ \E p \in Pids : SchedulerKilled(p)
    \/ WatchdogCheckObserved
    \/ WatchdogStarted
SpecRate == Init /\ [][NextRate]_vars

\* the watchdog invoked every CADENCE_MINUTES, with a scheduler that is gone
\* again at each invocation
CheckedNow ==
    /\ historyFile.exists
    /\ historyFile.restarts # <<>>
    /\ fromisoformat(historyFile.restarts[Len(historyFile.restarts)]) = now

CadenceCheck ==
    /\ ~CheckedNow
    /\ AliveSchedulers = {}
    /\ WatchdogCheck

CadenceTick ==
    /\ ctl.pc = "idle"
    /\ CheckedNow \/ (historyFile.exists /\ historyFile.backoff_until # JsonNull)
    /\ AliveSchedulers = {}
    /\ now + CADENCE_MINUTES <= MaxTime
    /\ now' = now + CADENCE_MINUTES
    /\ EnvStep
    /\ UNCHANGED <<spawnLog, wd, procs, pidFile, historyFile>>

InitCadence == Init /\ HAS_PSUTIL

NextCadence ==
    \/ CadenceCheck
    \/ WatchdogStarted
    \/ CadenceTick
    \/ SchedulerLife

SpecCadence == InitCadence /\ [][NextCadence]_vars /\ WF_vars(NextCadence)

\* two watchdog invocations at the same time (the Task Scheduler starts one
\* while the previous one, or one started by hand, is still running)
NextTwoWatchdogs ==
    \/ \E i \in Invocations : WdLoad(i)
    \/ \E i \in Invocations : WdReadPid(i)
    \/ \E i \in Invocations : WdProbe(i)
    \/ \E i \in Invocations : WdCleanup(i)
    \/ \E i \in Invocations : WdStartLoad(i)
    \/ \E i \in Invocations : WdRecord(i)
    \/ \E i \in Invocations : WdPopen(i)
    \/ \E i \in Invocations : WdReturn(i)
    \/ SchedulerLife

SpecTwoWatchdogs == InitCadence /\ [][NextTwoWatchdogs]_vars

\* get_pid / get_scheduler_pid applied to every state of the PID file
InitPidFile ==
    /\ now = 0
    /\ spawnLog = <<>>
    /\ wd = NoInvocations
    /\ HAS_PSUTIL \in BOOLEAN
    /\ procs = [p \in Pids |-> "none"]
    /\ pidFile \in PidFileStates
    /\ historyFile = NoHistoryFile
    /\ ctl = Idle
    /\ ret = NoRet
    /\ eff = NoEff
    /\ pre = NoPre
    /\ SchedulerOff

NextPidFile == GetPid \/ GetSchedulerPid
SpecPidFile == InitPidFile /\ [][NextPidFile]_vars

\* one supervisor stop and one watchdog check on a running scheduler: the
\* scheduler has written its PID file; it ends only by the signals of the stop
FirstPid == 1

InitStopRace ==
    /\ now = 0
    /\ spawnLog = <<>>
    /\ wd = NoInvocations
    /\ HAS_PSUTIL = TRUE
    /\ procs = [p \in Pids |-> IF p = FirstPid THEN "running" ELSE "none"]
    /\ pidFile = PidFileOf(FirstPid)
    /\ historyFile = NoHistoryFile
    /\ ctl = Idle
    /\ ret = NoRet
    /\ eff = NoEff
    /\ pre = NoPre
    /\ SchedulerOff

\* stop_scheduler() called while the scheduler runs
StopRunning ==
    /\ procs[FirstPid] \in SchedulerKinds
    /\ StopCall

\* proc.terminate() / proc.kill() takes effect
Signalled ==
    /\ ctl.pc \in {"stop_wait", "stop_kill_wait"}
    /\ SchedulerKilled(ctl.proc)

NextStopRace ==
    \/ StopRunning
    \/ Signalled
    \/ StopWait
    \/ StopKillWait
    \/ WdLoad("a")
    \/ WdReadPid("a")
    \/ WdProbe("a")
    \/ WdCleanup("a")
    \/ WdStartLoad("a")
    \/ WdRecord("a")
    \/ WdPopen("a")
    \/ WdReturn("a")
    \/ \E p \in Pids : SchedulerOpenPid(p)
    \/ \E p \in Pids : SchedulerWritePid(p)

SpecStopRace == InitStopRace /\ [][NextStopRace]_vars

\* the two probes applied to every PID, every process table and the PID file
\* of any of the processes
InitProbes ==
    /\ now = 0
    /\ spawnLog = <<>>
    /\ wd = NoInvocations
    /\ HAS_PSUTIL \in BOOLEAN
    /\ procs \in [Pids -> ProcKinds]
    /\ pidFile \in {NoPidFile} \cup {PidFileOf(p) : p \in Pids}
    /\ historyFile = NoHistoryFile
    /\ ctl = Idle
    /\ ret = NoRet
    /\ eff = NoEff
    /\ pre = NoPre
    /\ SchedulerOff

NextProbes ==
    \/ \E pid \in ProbedPids : IsProcessRunning(pid)
    \/ \E pid \in ProbedPids : IsRunning(pid)

SpecProbes == InitProbes /\ [][NextProbes]_vars

\* ---- one run of scheduler.py ---------------------------------------------------------------
\* everything but the scheduler run, at rest
SupervisorOff ==
    /\ now = 0
    /\ spawnLog = <<>>
    /\ wd = NoInvocations
    /\ HAS_PSUTIL \in BOOLEAN
    /\ procs = [p \in Pids |-> "none"]
    /\ pidFile = NoPidFile
    /\ historyFile = NoHistoryFile
    /\ ctl = Idle
    /\ ret = NoRet
    /\ eff = NoEff
    /\ pre = NoPre

RunStarts(configs, doms) ==
    /\ jobs \in configs
    /\ sch = SchStart
    /\ triggers = <<>>
    /\ dispatched = [n \in DOMAIN jobs |-> 0]
    /\ clock = 0
    /\ startDom \in doms
    /\ execs = <<>>
    /\ finished = NoExec

\* the schedule compiler on every job definition: jobs.yaml holds one job
InitCompile ==
    /\ SupervisorOff
    /\ HAS_PSUTIL
    /\ RunStarts({<<job>> : job \in JobSpecs}, {1})

NextCompile == MainWritePid \/ MainLoadJobs \/ MainScheduleJob
SpecCompile == InitCompile /\ [][NextCompile]_vars

\* the job definitions the loop is followed with
NoSchedule == [unit |-> "startup", every |-> None, at |-> Absent, day |-> Absent, day_of_month |-> None]
LoopSchedules ==
    {NoSchedule}
    \cup {[NoSchedule EXCEPT !.unit = u, !.every = e] :
            u \in {"seconds", "days"}, e \in 1..MaxEvery}
    \cup {[NoSchedule EXCEPT !.unit = "months", !.day_of_month = d] :
            d \in {None} \cup 1..MaxDom}
    \cup {[NoSchedule EXCEPT !.unit = "weeks", !.every = e, !.day = "monday"] :
            e \in 1..MaxEvery}
    \cup {[NoSchedule EXCEPT !.unit = "hours", !.every = 1, !.day = "monday"]}

LoopJobs ==
    {[enabled |-> en, unit |-> sc.unit, every |-> sc.every, at |-> sc.at,
      day |-> sc.day, day_of_month |-> sc.day_of_month] :
        en \in BOOLEAN, sc \in LoopSchedules}

LoopConfigs == UNION {[1..n -> LoopJobs] : n \in 0..MaxJobs}

InitScheduler ==
    /\ SupervisorOff
    /\ HAS_PSUTIL
    /\ RunStarts(LoopConfigs, {DaysInMonth} \cup 1..MaxDom)

NextScheduler ==
    \/ MainWritePid
    \/ MainLoadJobs
    \/ MainScheduleJob
    \/ MainRunStartup
    \/ \E dt \in TickSteps : MainTick(dt)
    \/ MainInterrupt
    \/ MainAtExit

SpecScheduler == InitScheduler /\ [][NextScheduler]_vars

\* the run of scheduler.py from its start to its end, whichever way it ends
NextLifecycle ==
    \/ MainWritePid
    \/ MainLoadJobs
    \/ MainScheduleJob
    \/ MainRunStartup
    \/ \E dt \in TickSteps : MainTick(dt)
    \/ MainInterrupt
    \/ MainAtExit
    \/ MainKilled

SpecLifecycle == InitScheduler /\ [][NextLifecycle]_vars

\* the run goes on as long as it can, and nobody interrupts it
RunGoesOn ==
    \/ MainWritePid
    \/ MainLoadJobs
    \/ MainScheduleJob
    \/ MainRunStartup
    \/ MainAtExit

SpecSchedulerFair == SpecScheduler /\ WF_vars(RunGoesOn)

\* ---- the loop with its executions -------------------------------------------------------------
\* a step of one of the threads, or of the processes of its command
Executions ==
    \/ \E k \in DOMAIN execs : \E how \in {"ok"} \cup SpawnErrors : ExecSpawn(k, how)
    \/ \E k \in DOMAIN execs : ShellForks(k)
    \/ \E k \in DOMAIN execs : \E ex \in ShellExitsWith : ShellExits(k, ex)
    \/ \E k \in DOMAIN execs : KidsExit(k)
    \/ \E k \in DOMAIN execs : ExecTimeout(k)
    \/ \E k \in DOMAIN execs : ExecTimeoutReturns(k)

\* the job definitions the executions are followed with: a startup job, a
\* job that is due every few seconds, and both
EverySeconds(e) == [NoSchedule EXCEPT !.unit = "seconds", !.every = e]

DispatchJob(sc) ==
    [enabled |-> TRUE, unit |-> sc.unit, every |-> sc.every, at |-> sc.at,
     day |-> sc.day, day_of_month |-> sc.day_of_month]

DispatchConfigs ==
    {<<DispatchJob(NoSchedule)>>}
    \cup {<<DispatchJob(EverySeconds(e))>> : e \in 1..MaxEvery}
    \cup {<<DispatchJob(NoSchedule), DispatchJob(EverySeconds(e))>> : e \in 1..MaxEvery}

InitDispatch ==
    /\ SupervisorOff
    /\ HAS_PSUTIL
    /\ RunStarts(DispatchConfigs, {1})

NextDispatch ==
    \/ MainWritePid
    \/ MainLoadJobs
    \/ MainScheduleJob
    \/ MainRunStartup
    \/ \E dt \in TickSteps : MainTick(dt)
    \/ MainInterrupt
    \/ MainAtExit
    \/ Executions

SpecDispatch == InitDispatch /\ [][NextDispatch]_vars

\* ---- the persisted restart history, as a later invocation loads it -----------------
PersistedRestarts == MapFromIso(historyFile.restarts)
PersistedBackoff ==
    IF historyFile.backoff_until = JsonNull THEN None
    ELSE fromisoformat(historyFile.backoff_until)

BackoffPending == historyFile.exists /\ PersistedBackoff # None /\ now < PersistedBackoff
BackoffExpired == historyFile.exists /\ PersistedBackoff # None /\ PersistedBackoff <= now

\* the step is a watchdog check called in this state
CheckStep == ctl.pc = "idle" /\ (ret'.op = "check" \/ ctl'.op = "check")

\* what the watchdog's probe finds in this state
ProbeFindsDown ==
    LET pid == get_scheduler_pid(pidFile)
    IN  pid = None \/ ~is_process_running(pid, procs)

NoneOlderThanWindow ==
    \A i \in 1..Len(PersistedRestarts) :
        now - PersistedRestarts[i] <= RESTART_WINDOW_MINUTES

\* C1: a watchdog check that found the scheduler down and, after appending the
\* current time and pruning, holds 5 or more restarts has set backoff_until to
\* now + 30 minutes (strictly later than now), has saved the history, has
\* spawned no scheduler and returns failure.
C1_ThrashDetection ==
    (eff.recorded /\ Len(PersistedRestarts) >= MAX_RESTARTS_IN_WINDOW) =>
        /\ historyFile.exists
        /\ PersistedBackoff = now + BACKOFF_MINUTES
        /\ PersistedBackoff > now
        /\ eff.saved
        /\ eff.spawned = {}
        /\ ctl.pc = "idle"
        /\ ret.op = "check" /\ ~ret.ok

C1_Witness ==
    /\ eff.recorded
    /\ ret.op = "check"
    /\ Len(PersistedRestarts) >= MAX_RESTARTS_IN_WINDOW
    /\ PersistedRestarts[1] < now

\* C2: a watchdog check called while the persisted backoff_until is set and
\* later than now reads no PID file, probes no process, removes no PID file,
\* spawns nothing and leaves the PID file, the processes and the persisted
\* history as they were.
C2_BackoffSuppression ==
    [][(CheckStep /\ BackoffPending) =>
          /\ UNCHANGED <<pidFile, procs, historyFile>>
          /\ ~eff'.readPid
          /\ eff'.probed = {}
          /\ ~eff'.unlinked
          /\ eff'.spawned = {}
          /\ ~eff'.saved
          /\ ctl'.pc = "idle"
          /\ ~ret'.ok]_vars

C2_Witness ==
    /\ ret.op = "check"
    /\ ~eff.recorded
    /\ BackoffPending
    /\ now > PersistedBackoff - BACKOFF_MINUTES

\* C3: a watchdog check called when the persisted backoff_until is set and not
\* later than now clears backoff_until and restarts and saves that, then goes
\* on with the liveness probe; when the probe finds the scheduler down the
\* restart attempt is recorded as the only entry of the fresh history.
C3_BackoffExpiry ==
    [][(CheckStep /\ BackoffExpired) =>
          /\ historyFile'.exists
          /\ historyFile'.backoff_until = JsonNull
          /\ eff'.saved
          /\ eff'.readPid
          /\ IF ProbeFindsDown
             THEN /\ eff'.recorded
                  /\ historyFile'.restarts = <<isoformat(now)>>
             ELSE /\ historyFile'.restarts = <<>>
                  /\ eff'.spawned = {}]_vars

C3_Witness ==
    /\ eff.expired
    /\ eff.recorded
    /\ eff.spawned # {}
    /\ PersistedRestarts = <<now>>

C5_RestartsSorted ==
    \A i, j \in 1..Len(PersistedRestarts) :
        i < j => PersistedRestarts[i] <= PersistedRestarts[j]

C5_Witness ==
    /\ Len(PersistedRestarts) >= 3
    /\ PersistedRestarts[1] < PersistedRestarts[Len(PersistedRestarts)]

\* ---- the supervisor commands ---------------------------------------------------------
\* the PID file named a live scheduler process when the command was called
PreNamesLiveScheduler ==
    pre.pidFile.exists /\ ParseInt(pre.pidFile.text) \in pre.alive

\* C6: with supervisor commands run one at a time, at most one scheduler
\* process is alive at any time.
C6_SingleInstance == Cardinality(AliveSchedulers) <= 1

\* C7: start() called when the PID file names a live scheduler process spawns
\* nothing, leaves the PID file and the live schedulers as they were and
\* returns ok = true with the pid of the PID file.
C7_StartNoOp ==
    (ret.op = "start" /\ PreNamesLiveScheduler) =>
        /\ ret.ok
        /\ ret.pid = ParseInt(pre.pidFile.text)
        /\ pidFile = pre.pidFile
        /\ ~eff.unlinked
        /\ eff.spawned = {}
        /\ eff.signals = <<>>
        /\ AliveSchedulers = pre.alive

C7_Witness ==
    /\ ret.op = "start"
    /\ PreNamesLiveScheduler
    /\ ret.ok
    /\ HAS_PSUTIL

\* C8: start() called when no scheduler is running returns ok = true with pid
\* p only if, when it returns, the PID file exists, parses to p and p is a live
\* scheduler process; when the PID file is not there at the end of the wait
\* loop it returns ok = false with no pid.
C8_StartResult ==
    (ret.op = "start" /\ pre.alive = {}) =>
        /\ ret.ok => /\ pidFile.exists
                     /\ ParseInt(pidFile.text) = ret.pid
                     /\ ret.pid \in AliveSchedulers
        /\ ~pidFile.exists => (~ret.ok /\ ret.pid = None)

C10_StopOk ==
    (ret.op = "stop" /\ ret.ok) =>
        /\ ~pidFile.exists
        /\ ParseInt(pre.pidFile.text) \notin AliveSchedulers
        /\ \/ eff.signals = <<>>
           \/ eff.signals = <<<<"terminate", ParseInt(pre.pidFile.text)>>>>
           \/ eff.signals = <<<<"terminate", ParseInt(pre.pidFile.text)>>,
                              <<"kill", ParseInt(pre.pidFile.text)>>>>

\* ---- restart ---------------------------------------------------------------------------
\* the step belongs to a restart() call: its first step, or a later one
RestartStep ==
    \/ ctl.pc = "idle" /\ (ret'.op = "restart" \/ ctl'.op = "restart")
    \/ ctl.op = "restart" /\ ctl' # ctl

\* stop_scheduler is about to return success = False in this state
StopFails ==
    \/ ctl.pc = "idle" /\ ~HAS_PSUTIL
    \/ ctl.pc = "stop_kill_wait" /\ ~Gone(ctl.proc)

StopFailureMessage == IF HAS_PSUTIL THEN "Failed to stop" ELSE "psutil required"

\* C11: restart() does stop, then start: a scheduler is spawned for a restart
\* only after the pause that follows a successful stop; when stop returns
\* ok = false, restart returns (false, stop's message, no pid) at once, spawns
\* no scheduler and removes no PID file.
C11_RestartStopFirst ==
    [][RestartStep =>
          /\ StopFails =>
                /\ ret' = Return("restart", FALSE, StopFailureMessage, None)
                /\ ctl' = Idle
                /\ eff'.spawned = {}
                /\ ~eff'.unlinked
                /\ UNCHANGED <<pidFile, procs>>
          /\ (ctl'.pc = "start_poll" /\ ctl.pc # "start_poll") => ctl.pc = "restart_pause"
          /\ (ctl'.pc = "restart_pause") => ~StopFails]_vars

C11_Witness ==
    /\ ret = Return("restart", FALSE, "Failed to stop", None)
    /\ Len(eff.signals) = 2
    /\ AliveSchedulers # {}
    /\ pidFile.exists

\* ---- is_running, get_pid ---------------------------------------------------------------
\* C12: for every pid, is_running(pid) is true only if a process with that pid
\* exists and its command line identifies the scheduler; it is false for a pid
\* of no process and for a pid of an unrelated process, with and without
\* psutil.
C12_IsRunningPidSafe ==
    \A pid \in Pids :
        is_running(pid, pidFile, procs, HAS_PSUTIL) => procs[pid] \in SchedulerKinds

\* the integer a text denotes
DecimalValue(t) ==
    IF Head(t) = Minus THEN 0 - ParseDigits(Tail(t)) ELSE ParseDigits(t)

\* C13: get_pid() and get_scheduler_pid() return the integer in the PID file
\* when the file exists, can be read and holds a decimal integer (white space
\* around it aside); they return None, raising nothing, when the file is
\* absent, unreadable or holds anything else; the PID file is left as it was.
C13_GetPidTotal ==
    ret.op \in {"get_pid", "get_scheduler_pid"} =>
        LET f == pre.pidFile
            t == strip(f.text)
        IN  /\ ~ret.raised
            /\ pidFile = f
            /\ IF f.exists /\ f.readable /\ IsDecimal(t)
               THEN ret.pid = DecimalValue(t) /\ ret.pid # None
               ELSE ret.pid = None

C13_Witness ==
    /\ ret.op = "get_pid"
    /\ pre.pidFile.exists
    /\ pre.pidFile.readable
    /\ Letter \in {pre.pidFile.text[i] : i \in 1..Len(pre.pidFile.text)}
    /\ ret.pid = None

\* C14: start, stop and restart always end by returning their tuple; no
\* exception reaches the caller, whatever the PID file and the process table
\* hold.
C14_NeverRaises ==
    ret.op \in {"start", "stop", "restart"} => ~ret.raised

\* ---- the scheduling loop ------------------------------------------------------------------
Dispatched(n) == IF n \in DOMAIN dispatched THEN dispatched[n] ELSE 0

IsJob(n, unit) == n \in DOMAIN jobs /\ jobs[n].enabled /\ jobs[n].unit = unit

Interrupted == sch.error = "KeyboardInterrupt"

\* C15: every enabled startup job is dispatched exactly once in the run of
\* the scheduler: it is dispatched (unless the user interrupts the run first),
\* its dispatch falls after the last job was compiled and before the first
\* tick, and it is never dispatched a second time.
C15_StartupExactlyOnce ==
    \A n \in 1..MaxJobs :
        /\ (IsJob(n, "startup") /\ sch.pc = "start") ~> (Dispatched(n) = 1 \/ Interrupted)
        /\ [](IsJob(n, "startup") =>
                 /\ Dispatched(n) <= 1
                 /\ Dispatched(n) = 1 => sch.i = Len(jobs)
                 /\ sch.ticks >= 1 => Dispatched(n) = 1)

\* C16: no execution of a job with enabled = false is ever dispatched, whatever
\* its unit: it is in no trigger and not among the startup jobs.
C16_DisabledNeverDispatched ==
    \A n \in DOMAIN jobs :
        ~jobs[n].enabled =>
            /\ dispatched[n] = 0
            /\ \A k \in DOMAIN triggers : triggers[k].job # n
            /\ \A k \in DOMAIN sch.startup : sch.startup[k] # n

\* a disabled monthly job on its day, one day into the run, next to a job
\* that was dispatched
C16_Witness ==
    /\ sch.pc = "loop"
    /\ clock >= DAY
    /\ \E n \in DOMAIN jobs :
          /\ ~jobs[n].enabled
          /\ jobs[n].unit = "months"
          /\ DayOfMonth(clock) = TargetDay(jobs[n].day_of_month)
    /\ \E n \in DOMAIN jobs : dispatched[n] = 1

\* the trigger of job n runs in this step
Fires(n) ==
    \E k \in DOMAIN triggers :
        triggers[k].job = n /\ triggers'[k].next_run # triggers[k].next_run

\* C17: an enabled monthly job with target day d (1 when day_of_month is not
\* given) has a daily trigger; in every step its command is dispatched once
\* if that trigger fires and the day of the month is d, and not at all
\* otherwise.
C17_MonthlyGate ==
    [][\A n \in DOMAIN jobs :
          IsJob(n, "months") =>
            LET d == IF jobs[n].day_of_month = None THEN 1 ELSE jobs[n].day_of_month
            IN  /\ \A k \in DOMAIN triggers :
                      triggers[k].job = n =>
                          /\ triggers[k].unit = "days"
                          /\ triggers[k].interval = 1
                          /\ triggers[k].gate = d
                /\ dispatched'[n] = dispatched[n] +
                      (IF Fires(n) /\ DayOfMonth(clock') = d THEN 1 ELSE 0)]_vars

\* two days into the run a monthly job was skipped on one day and dispatched
\* on the other
C17_Witness ==
    /\ clock = 2 * DAY
    /\ sch.ticks = 2
    /\ \E n \in DOMAIN jobs : IsJob(n, "months") /\ dispatched[n] = 1

\* job n alone passes validate_config
Validates(n) == n \in DOMAIN jobs /\ validate_config(<<jobs[n]>>)

\* compiling the schedule of job n fails: its definition is rejected by
\* validate_config, or schedule_job raises for it
CompileFails(n) ==
    /\ n \in DOMAIN jobs
    /\ ~Validates(n) \/ schedule_job(jobs[n]).result = "raise"

\* job n is enabled and its schedule compiles
Compiles(n) ==
    /\ n \in DOMAIN jobs
    /\ jobs[n].enabled
    /\ Validates(n)
    /\ schedule_job(jobs[n]).result # "raise"

\* job n has its trigger, or was dispatched as a startup job
Scheduled(n) ==
    IF n \in DOMAIN jobs /\ jobs[n].unit = "startup"
    THEN Dispatched(n) = 1
    ELSE \E k \in DOMAIN triggers : triggers[k].job = n

\* C18: when compiling the schedule of one job of the list fails, every other
\* enabled job whose schedule compiles still gets its trigger (a startup job
\* its dispatch) and the run reaches the scheduling loop, unless the user
\* interrupts it.
C18_CompileErrorIsolated ==
    \A n \in 1..MaxJobs : \A m \in 1..MaxJobs :
        (sch.pc = "start" /\ CompileFails(n) /\ Compiles(m))
            ~> (Interrupted \/ (sch.pc = "loop" /\ Scheduled(m)))

\* ---- the schedule compiler -----------------------------------------------------------------
\* load_jobs and the compile loop are over for a jobs.yaml of one job
CompileDone == Len(jobs) = 1 /\ sch.pc \in {"startup", "fatal"}

\* the job was refused: an error ended the run and nothing is registered
Rejected ==
    /\ sch.pc = "fatal"
    /\ sch.error # "none"
    /\ triggers = <<>>
    /\ sch.startup = <<>>

IntervalUnits == {"seconds", "minutes", "hours", "days", "weeks"}

\* the fields (besides unit) a schedule of the unit may carry
AllowedFields(unit) ==
    CASE unit = "seconds" -> {"every"}
      [] unit \in {"minutes", "hours", "days"} -> {"every", "at"}
      [] unit = "weeks" -> {"every", "at", "day"}
      [] unit = "months" -> {"at", "day_of_month"}
      [] unit = "startup" -> {}

\* a field outside the allowed set of the unit, or no `every` where needed
BreaksFieldRules(job) ==
    /\ job.unit \in UNITS
    /\ \/ ~((Fields(job) \ {"unit"}) \subseteq AllowedFields(job.unit))
       \/ job.unit \in IntervalUnits /\ job.every = None

\* C19 as stated: a schedule that carries a field outside the allowed set of
\* its unit, or lacks `every` for seconds .. weeks, is rejected; the trigger
\* of every accepted schedule has the cadence 'every N unit' with N and unit
\* of the schedule.
C19_CompileContract ==
    CompileDone =>
        /\ BreaksFieldRules(jobs[1]) => Rejected
        /\ \A k \in DOMAIN triggers :
              /\ triggers[k].interval = jobs[1].every
              /\ triggers[k].unit = jobs[1].unit

\* C19 as amended: such a schedule is rejected; the trigger of an accepted
\* schedule of a unit seconds .. weeks has the cadence 'every N unit' with N
\* and unit of the schedule; an accepted monthly schedule has a trigger of
\* cadence 'every 1 days' gated to its day of the month (1 if not given); a
\* startup schedule has no trigger.
C19_CompileContractAmended ==
    CompileDone =>
        /\ BreaksFieldRules(jobs[1]) => Rejected
        /\ \A k \in DOMAIN triggers :
              CASE jobs[1].unit \in IntervalUnits ->
                      /\ triggers[k].interval = jobs[1].every
                      /\ triggers[k].unit = jobs[1].unit
                      /\ triggers[k].gate = None
                [] jobs[1].unit = "months" ->
                      /\ triggers[k].interval = 1
                      /\ triggers[k].unit = "days"
                      /\ triggers[k].gate = (IF jobs[1].day_of_month = None THEN 1
                                             ELSE jobs[1].day_of_month)
                [] OTHER -> FALSE

\* a schedule with nothing wrong but a field of another unit was rejected
C19_Witness ==
    /\ CompileDone
    /\ Rejected
    /\ SchemaOK(jobs[1])
    /\ jobs[1].unit = "hours"
    /\ jobs[1].every = MaxEvery
    /\ jobs[1].day # Absent

\* the day of a weekly schedule is none of the seven names, in any case
UnknownDay(job) ==
    job.unit = "weeks" /\ job.day # Absent /\ lower(job.day) \notin WEEKDAYS

Returns == ProcessAlive /\ sch' = sch /\ Len(execs') < Len(execs)

\* C21: run_command returns a result for every way the command can end (zero
\* exit, nonzero exit, timeout, no shell started because of a missing
\* directory, any other error) and raises nothing; success is true exactly
\* when the command ended with exit code 0 within the timeout; a nonzero exit
\* gives success = false, the exit code in error and the captured stderr; a
\* timeout gives success = false and a timeout error.
C21_RunCommandTotal ==
    [][Returns =>
          LET done == finished'.done
              result == finished'.result
          IN  /\ finished'.pc = "done"
              /\ done.what \in {"exit", "timeout"} \cup SpawnErrors
              /\ ~result.raised
              /\ result.success <=> /\ done.what = "exit"
                                     /\ done.code = 0
                                     /\ InTime(finished', clock)
              /\ (done.what = "exit" /\ done.code # 0) =>
                     /\ result.error = "Exit code"
                     /\ result.code = done.code
                     /\ result.stderr = done.stderr
              /\ done.what = "timeout" =>
                     /\ Expired(finished', clock)
                     /\ result.error = "Timed out"
              /\ ~result.success => result.error # "None"]_vars

\* the shell could not find the command: exit code 127 came back as a result
C21_Witness ==
    /\ finished.pc = "done"
    /\ finished.done = Exited(127, "not found")
    /\ ~finished.result.success
    /\ finished.result.code = 127

\* C22: when a command runs longer than the timeout, run_command returns
\* success = false with a timeout error, and at the moment it returns neither
\* the shell nor any process the shell started is still running.
C22_TimeoutKillsTree ==
    (finished.pc = "done" /\ finished.done.what = "timeout") =>
        /\ ~finished.result.success
        /\ finished.result.error = "Timed out"
        /\ finished.shell # "alive"
        /\ ~finished.kids

\* ---- dispatch ----------------------------------------------------------------------------
\* the step is an iteration of the loop
TickStep == sch.pc = "loop" /\ sch'.ticks = sch.ticks + 1

\* an execution of job n has not returned yet
RunningExecs(n) == {k \in DOMAIN execs : execs[k].job = n}

\* the trigger is due and lets the job run at time t
MustFire(tr, t) == Due(tr, t) /\ GatePasses(tr, t)

\* C23: the loop never waits for a command it dispatched: while executions
\* are running the next tick, one second later, can be taken; on every tick
\* each job that is due while an execution of another job is still running is
\* dispatched (a new thread started at that tick), and no trigger is left due
\* after the tick.
C23_NonBlockingDispatch ==
    [][/\ (sch.pc = "loop" /\ sch.ticks < MaxTicks /\ execs # <<>>) =>
              ENABLED MainTick(SECOND)
       /\ TickStep =>
              /\ \A k \in DOMAIN triggers :
                    (/\ MustFire(triggers[k], clock')
                     /\ \E a \in DOMAIN execs : execs[a].job # triggers[k].job) =>
                        /\ dispatched'[triggers[k].job] > dispatched[triggers[k].job]
                        /\ \E e \in DOMAIN execs' :
                              /\ e > Len(execs)
                              /\ execs'[e] = NewExec(triggers[k].job, clock')
              /\ \A k \in DOMAIN triggers' : triggers'[k].next_run > clock'
              /\ \A a \in DOMAIN execs : execs'[a] = execs[a]]_vars

\* the startup job's command is still running, and the other job has been
\* dispatched after it
C23_Witness ==
    \E a \in DOMAIN execs : \E b \in DOMAIN execs :
        /\ execs[a].job = 1 /\ execs[a].pc = "running" /\ execs[a].kids
        /\ execs[b].job = 2 /\ execs[b].started > execs[a].started

\* C24: executions of one job are neither serialized nor deduplicated: a
\* trigger that is due while earlier executions of its own job are still
\* running fires all the same, a new thread is started for the job at that
\* tick, and the earlier executions go on untouched.
C24_SameJobOverlaps ==
    [][TickStep =>
          \A k \in DOMAIN triggers :
              (MustFire(triggers[k], clock') /\ RunningExecs(triggers[k].job) # {}) =>
                  /\ dispatched'[triggers[k].job] = dispatched[triggers[k].job] + 1
                  /\ execs'[Len(execs')].started = clock'
                  /\ \A a \in RunningExecs(triggers[k].job) : execs'[a] = execs[a]
                  /\ Cardinality({e \in DOMAIN execs' : execs'[e].job = triggers[k].job})
                        = Cardinality(RunningExecs(triggers[k].job)) + 1]_vars

\* two commands of the same job, started at different ticks, are both running
C24_Witness ==
    \E a \in DOMAIN execs : \E b \in DOMAIN execs :
        /\ execs[a].job = execs[b].job
        /\ execs[a].started < execs[b].started
        /\ execs[a].pc = "running" /\ execs[a].shell = "alive"
        /\ execs[b].pc = "running" /\ execs[b].shell = "alive"

\* ---- C25 ----
\* the failures a check cycle logs and goes on from
Absorbed == {"history", "pid", "probe", "save", "unlink"}
\* sys.exit(0 if success else 1)
ExitCode(r) == IF r.ok THEN 0 ELSE 1

ResetStep == ctl.pc = "idle" /\ ret'.op = "reset"

\* C26: a reset, whatever the recorded restarts and backoff_until, leaves no
\* history file, so that load_restart_history gives empty restarts and no
\* backoff_until; the reset reads no PID file, probes no process, spawns
\* nothing and touches neither the PID file nor the processes; a check that
\* finds no history file performs the liveness probe and, when it records a
\* restart, records it as the only one.
C26_ResetClears ==
    [][/\ ResetStep =>
             /\ ret'.ok
             /\ ~historyFile'.exists
             /\ load_restart_history(historyFile') =
                    [restarts |-> <<>>, backoff_until |-> None]
             /\ ~eff'.readPid
             /\ eff'.probed = {}
             /\ eff'.spawned = {}
             /\ UNCHANGED <<pidFile, procs, ctl>>
       /\ (CheckStep /\ ~historyFile.exists) =>
             /\ eff'.readPid
             /\ ret'.msg \notin {"backoff", "thrashing"}
             /\ eff'.recorded <=> ProbeFindsDown
             /\ eff'.recorded => historyFile'.restarts = <<isoformat(now)>>]_vars

\* a reset has removed a history file
C26_Witness ==
    /\ ret.op = "reset"
    /\ ret.msg = "cleared"
    /\ ~historyFile.exists

\* ---- C27 ----
\* the step is a watchdog check called right after a watchdog check returned
SecondCheckStep == ret.op = "check" /\ CheckStep

\* the step changes nothing of what is persisted and starts no process
NothingChanges ==
    /\ UNCHANGED <<historyFile, pidFile>>
    /\ AliveSchedulers' = AliveSchedulers

\* the PID file holds the PID of a scheduler process or of a process whose
\* command line cannot be read
RecordedPidRuns ==
    LET pid == get_scheduler_pid(pidFile)
    IN  /\ pid \in DOMAIN procs
        /\ procs[pid] \in SchedulerKinds \cup {"denied"}

\* C27 as stated: a watchdog check run right after a watchdog check leaves the
\* restart history, the PID file and the set of scheduler processes as the
\* first one left them.
C27_CheckIdempotent ==
    [][SecondCheckStep => NothingChanges]_vars

\* C27 amended: a watchdog check run right after a watchdog check changes
\* nothing when the first one ended in backoff or thrashing or found the
\* scheduler running, and when it spawned a scheduler whose PID is in the PID
\* file by now; otherwise (the spawn failed, or the spawned scheduler has not
\* written its PID yet) the second check is one more restart attempt: it
\* records a further restart and spawns again unless the threshold is reached.
C27_SecondCheck ==
    [][SecondCheckStep =>
          /\ ret.msg \in {"backoff", "thrashing"} => BackoffPending
          /\ ret.msg = "running" => RecordedPidRuns
          /\ ret.msg = "failed" => (~BackoffPending /\ ~RecordedPidRuns)
          /\ IF BackoffPending \/ RecordedPidRuns
             THEN NothingChanges
             ELSE /\ eff'.recorded
                  /\ historyFile' # historyFile
                  /\ PersistedRestarts' # <<>>
                  /\ PersistedRestarts'[Len(PersistedRestarts')] = now
                  /\ Len(PersistedRestarts') >= Len(PersistedRestarts)
                  /\ eff'.spawned # {} => AliveSchedulers' # AliveSchedulers]_vars

\* a second check in a row has recorded a second restart and spawned a second
\* scheduler
C27_Witness ==
    /\ ctl.pc = "wd_sleep"
    /\ eff.recorded
    /\ eff.spawned # {}
    /\ Len(PersistedRestarts) >= 2
    /\ PersistedRestarts[Len(PersistedRestarts) - 1] = now
    /\ Cardinality(AliveSchedulers) >= 2

\* ---- C28 ----
\* the kind of the process with the PID the PID file holds
RecordedKind ==
    LET pid == get_scheduler_pid(pidFile)
    IN  IF pid \in DOMAIN procs THEN procs[pid] ELSE "none"

\* the check leaves the PID file and the recorded restarts, spawns nothing
ProbeLeavesAll ==
    /\ UNCHANGED <<pidFile, procs>>
    /\ ~eff'.unlinked
    /\ ~eff'.recorded
    /\ eff'.spawned = {}
    /\ ret'.ok

\* the check removes the PID file and records a restart attempt; unless that
\* attempt reaches the thrashing threshold the scheduler is spawned or the
\* spawn fails
ProbeRestarts ==
    /\ ~pidFile'.exists
    /\ eff'.unlinked = pidFile.exists
    /\ eff'.recorded
    /\ PersistedRestarts'[Len(PersistedRestarts')] = now
    /\ ret'.msg # "thrashing" => (eff'.spawned # {} \/ ret'.msg = "failed")

InBackoff == historyFile.exists /\ PersistedBackoff # None

\* the last time the modelled clock reaches
LastTick == (MaxTime \div ClockStep) * ClockStep

\* a check that went on to the liveness probe has ended and the guard is Normal
ProbedInNormal ==
    /\ eff.readPid
    /\ ret.op = "check" \/ ctl.pc = "wd_sleep"
    /\ ~InBackoff

\* C29: Backoff is entered only by a check that records a restart and reaches
\* the threshold; Backoff is left only by a reset or by a check called at or
\* after backoff_until, which leaves no restart but the one it may record
\* itself; a check called in Normal always probes; and from Backoff (with
\* backoff_until within the modelled time) the guard comes to Normal with a
\* check that has probed.
C29_GuardNoTerminal ==
    /\ [][/\ (~InBackoff /\ InBackoff') =>
                /\ CheckStep
                /\ eff'.recorded
                /\ ret'.msg = "thrashing"
                /\ Len(PersistedRestarts') >= MAX_RESTARTS_IN_WINDOW
                /\ PersistedBackoff' = now + BACKOFF_MINUTES
          /\ (InBackoff /\ ~InBackoff') =>
                \/ ResetStep
                \/ /\ CheckStep
                   /\ BackoffExpired
                   /\ eff'.expired
                   /\ eff'.readPid
                   /\ historyFile'.restarts \in {<<>>, <<isoformat(now)>>}
          /\ (InBackoff /\ InBackoff') => PersistedBackoff' = PersistedBackoff
          /\ (CheckStep /\ ~InBackoff) => eff'.readPid]_vars
    /\ (InBackoff /\ PersistedBackoff <= LastTick) ~> ProbedInNormal

\* the guard has left Backoff by expiry: the check cleared the history, probed
\* and recorded the first restart of the fresh history
C29_Witness ==
    /\ ret.op = "check"
    /\ eff.expired
    /\ eff.readPid
    /\ eff.recorded
    /\ ~InBackoff
    /\ PersistedRestarts = <<now>>

\* ---- C30 ----
\* the positions of __main__ after write_pid_file and before the run ends
MainRunning == {"load", "compile", "startup", "loop"}

SupervisorStep ==
    \/ ctl.op \in {"start", "stop", "restart"}
    \/ ctl'.op \in {"start", "stop", "restart"}
    \/ ret'.op \in {"start", "stop", "restart"}

\* C31: the restart history file changes only in a step of a watchdog check or
\* of a watchdog reset; every step of a supervisor start, stop or restart and
\* every step of the scheduler process leaves restarts and backoff_until as
\* they are.
C31_HistoryOwnedByWatchdog ==
    [][/\ historyFile' # historyFile => (CheckStep \/ ResetStep)
       /\ SupervisorStep => UNCHANGED historyFile]_vars

\* a supervisor start has spawned a scheduler while restarts are recorded
C31_Witness ==
    /\ ret.op = "start"
    /\ ret.ok
    /\ eff.spawned # {}
    /\ historyFile.exists
    /\ Len(historyFile.restarts) >= 2

\* ---- C32 ----
\* the check went on to the Popen of start_scheduler
StartAttempted == eff.spawned # {} \/ (ret.op = "check" /\ ret.msg = "failed")

SpawnsInWindow(i) ==
    {k \in DOMAIN spawnLog :
        /\ spawnLog[k] > spawnLog[i] - RESTART_WINDOW_MINUTES
        /\ spawnLog[k] <= spawnLog[i]}

\* C33: of the spawns of the watchdog, at most 4 (threshold minus 1) lie in
\* any 15 minutes (t - 15, t], whether or not a backoff period began and
\* expired in between.
C33_RestartRateBound ==
    \A i \in DOMAIN spawnLog :
        Cardinality(SpawnsInWindow(i)) <= MAX_RESTARTS_IN_WINDOW - 1

\* four spawns in one window, a backoff, its expiry and a spawn after it
C33_Witness ==
    /\ Len(spawnLog) = MAX_RESTARTS_IN_WINDOW
    /\ spawnLog[MAX_RESTARTS_IN_WINDOW] = now
    /\ eff.expired
    /\ Cardinality(SpawnsInWindow(MAX_RESTARTS_IN_WINDOW - 1)) = MAX_RESTARTS_IN_WINDOW - 1

AllEnded == \A i \in Invocations : wd[i].pc = "done"

\* C35: when the watchdog invocations have ended, the persisted history holds
\* at least as many restarts of the window as the watchdog has spawned
\* schedulers in it.
C35_NoLostRestartRecord ==
    AllEnded =>
        Cardinality({k \in DOMAIN PersistedRestarts :
                        PersistedRestarts[k] > now - RESTART_WINDOW_MINUTES})
          >= Cardinality({k \in DOMAIN spawnLog :
                        spawnLog[k] > now - RESTART_WINDOW_MINUTES})

\* ---- C36 ----
\* C36: a scheduler that shuts down cleanly leaves a PID file that holds
\* another PID as it is; with two schedulers, the exit of the older one keeps
\* the PID file of the newer one.
C36_ExitRemovesOwnPidFileOnly ==
    [][\A p \in Pids :
          SchedulerExit(p) /\ pidFile.exists /\ pidFile.text # Str(p)
              => pidFile' = pidFile]_vars

\* ---- C37 ----
\* the process a probe was called with may not be inspected
ProbedDenied == ret.pid \in DOMAIN procs /\ procs[ret.pid] = "denied"

BothCompleted ==
    /\ ctl.pc = "idle"
    /\ procs[FirstPid] = "none"
    /\ wd["a"].pc = "done"
    /\ \A p \in Pids : procs[p] \notin {"starting", "writing"}

\* C39: in whatever order the steps of one stop and of one watchdog check on a
\* running scheduler are taken, once both have completed the PID file exists
\* exactly when a scheduler process is alive, and names that process.
C39_StopRaceConsistent ==
    BothCompleted =>
        /\ pidFile.exists <=> AliveSchedulers # {}
        /\ pidFile.exists => get_pid(pidFile) \in AliveSchedulers

\* ---- C40 ----
\* C40: in every result of run_command success is true exactly when error is
\* null; on success stdout and stderr hold what the command wrote; on a
\* timeout, a missing script and every other failure stdout is the empty
\* string, whatever the command wrote.
C40_ResultShape ==
    finished.pc = "done" =>
        LET result == finished.result
            done == finished.done
        IN  /\ result.success <=> result.error = "None"
            /\ result.success =>
                   /\ result.stdout = Printed(done)
                   /\ result.stderr = done.stderr
            /\ ~result.success => result.stdout = ""

\* run_command has returned a failure for a command that had written to its
\* standard output
C40_Witness ==
    /\ finished.pc = "done"
    /\ ~finished.result.success
    /\ finished.result.error # "None"
    /\ Printed(finished.done) # ""
    /\ finished.result.stdout = ""

TypeOK ==
    /\ now \in 0..(MaxTime + ClockStep)
    /\ HAS_PSUTIL \in BOOLEAN
    /\ procs \in [Pids -> ProcKinds]
    /\ pidFile.exists \in BOOLEAN
    /\ historyFile.exists \in BOOLEAN
    /\ ctl.polls \in 0..StartPolls

====
